---- MODULE Spec2Model ----
(***************************************************************************)
(* Model of the reconciliation engines of match-magic:                     *)
(*   StreamingReconciliationEngine (src/unnamed/part_004) and              *)
(*   ReconciliationEngine          (src/unnamed/part_006).                 *)
(*                                                                         *)
(* Cell values are tagged records: null, undefined (a column the row does  *)
(* not have) and numbers.  The cells of the modelled rows are integers, so *)
(* a difference of two numeric cells is within the code's epsilon 0.000001 *)
(* exactly when it is 0.                                                   *)
(* A row object is a function from column names to cell values.  Two rows  *)
(* with the same cells are still two objects in the program, so every      *)
(* verdict also carries the file position of the rows it holds             *)
(* (sourceRef, targetRef): that is the identity of the row object.         *)
(***************************************************************************)
EXTENDS Integers, Sequences, FiniteSets, TLC

VARIABLES
    engine,        \* which entry point runs: "streaming" | "batch"
    sourceFile,    \* rows of the source sheet, in file order
    targetFile,    \* rows of the target sheet, in file order
    mappings,      \* input.mappings
    config,        \* input.config
    estimatedRows, \* totalRows of reconcileStreaming (sum of both estimates)
    pc,            \* position in the running entry point
    sourceRecords, \* SortedRecord[] of the source (in-memory mode)
    targetRecords, \* SortedRecord[] of the target (in-memory mode)
    i,             \* source pointer / next source position
    j,             \* target window start / next target position
    matchedTargetIndices,
    results,       \* the verdicts emitted so far, in emission order
    inputData,     \* rows (or arguments) handed to the call under way
    virtualFields, \* VirtualField[] of that side
    transformations, \* TransformationPipeline[] of that side
    inputValue,    \* the value handed to executePipeline
    inputPipeline, \* the pipeline handed to executePipeline
    output         \* what the preprocessing call returned

prepVars == <<inputData, virtualFields, transformations, inputValue, inputPipeline, output>>

vars == <<engine, sourceFile, targetFile, mappings, config, estimatedRows, pc,
          sourceRecords, targetRecords, i, j, matchedTargetIndices, results, prepVars>>

\* no preprocessing call is under way
PrepIdle ==
    /\ inputData = <<>>
    /\ virtualFields = <<>>
    /\ transformations = <<>>
    /\ inputValue = [type |-> "undefined"]
    /\ inputPipeline = <<>>
    /\ output = <<>>

----------------------------------------------------------------------------
(* Bounds of the model *)

\* rows of the source and the target sheet together
MaxRows == 3
\* config.tolerance is drawn from 0..MaxTolerance
MaxTolerance == 1
\* debit, credit and amount cells of the formula mappings lie in
\* -MaxAmount..MaxAmount
MaxAmount == 2
\* a validated pipeline has at most MaxValidatedSteps steps
MaxValidatedSteps == 3
\* a list of virtual fields handed to the sort has at most MaxFields fields
MaxFields == 3
\* the number of nested evaluateFormula calls at which the call stack of the
\* run is exhausted
StackLimit == 6

\* chunks of 1000 rows a sheet may fill
MaxChunks == 2

\* steps the edited pipeline may hold
MaxPipelineSteps == 3

\* distinct values of Date.now() during the editing
MaxClock == 2

(* Program constants *)

STREAM_THRESHOLD == 50000

----------------------------------------------------------------------------
(* Cell values *)

Null == [type |-> "null"]
Undefined == [type |-> "undefined"]
Num(n) == [type |-> "number", n |-> n]

IsNumber(v) == v.type = "number"

Abs(x) == IF x < 0 THEN -x ELSE x

\* row[column] of JavaScript: undefined when the row has no such column
Cell(row, column) == IF column \in DOMAIN row THEN row[column] ELSE Undefined

\* String(value).toLowerCase().trim(); digits are kept as the number they spell
StringOf(v) == IF IsNumber(v) THEN <<"digits", v.n>> ELSE <<v.type>>

\* JavaScript truthiness of a cell value (0, null and undefined are falsy)
Truthy(v) == IsNumber(v) /\ v.n # 0

----------------------------------------------------------------------------
(* Column names.  String.includes on the column names of the model. *)

NameIncludes(name, part) ==
    <<name, part>> \in {<<"date", "date">>, <<"amount", "amount">>,
                        <<"id", "id">>, <<"transaction_id", "id">>,
                        <<"Amount", "amount">>}

\* !mapping.sourceColumn || !mapping.targetColumn  (the `continue` of the loops)
MappingSkipped(mapping) == mapping.sourceColumn = "" \/ mapping.targetColumn = ""

----------------------------------------------------------------------------
(* StreamingReconciliationEngine: helpers *)

ExtractSortValue(record, sortKey) ==
    IF sortKey = "" THEN Null
    ELSE LET value == Cell(record, sortKey)
         IN  IF value.type \in {"null", "undefined"} THEN Null ELSE value

\* the tolerance in the unit of the sort values
ActualTolerance(sourceValue, tolerance, toleranceUnit) ==
    CASE toleranceUnit = "minutes"    -> tolerance * 60 * 1000
      [] toleranceUnit = "hours"      -> tolerance * 60 * 60 * 1000
      [] toleranceUnit = "days"       -> tolerance * 24 * 60 * 60 * 1000
      [] toleranceUnit = "percentage" -> Abs(sourceValue * tolerance)
      [] OTHER                        -> tolerance

\* compareSortValues once neither value is null
CompareNonNull(sourceValue, targetValue, tolerance, toleranceUnit) ==
    IF tolerance = 0 \/ toleranceUnit = "exact"
    THEN IF sourceValue.n = targetValue.n THEN 0
         ELSE IF sourceValue.n < targetValue.n THEN -1 ELSE 1
    ELSE IF Abs(sourceValue.n - targetValue.n)
               <= ActualTolerance(sourceValue.n, tolerance, toleranceUnit)
         THEN 0
    ELSE IF sourceValue.n < targetValue.n THEN -1 ELSE 1

\* a comparison that takes a null on either side for a match
CompareSortValuesNullMatchesAll(sourceValue, targetValue, tolerance, toleranceUnit) ==
    IF sourceValue = Null \/ targetValue = Null THEN 0
    ELSE CompareNonNull(sourceValue, targetValue, tolerance, toleranceUnit)

CompareSortValues(sourceValue, targetValue, tolerance, toleranceUnit) ==
    IF sourceValue = Null /\ targetValue = Null THEN 0
    ELSE IF sourceValue = Null THEN -1
    ELSE IF targetValue = Null THEN 1
    ELSE CompareNonNull(sourceValue, targetValue, tolerance, toleranceUnit)

\* a percentage whose window lies around the target value
CompareSortValuesPercentOfTarget(sourceValue, targetValue, percent) ==
    IF sourceValue = Null /\ targetValue = Null THEN 0
    ELSE IF sourceValue = Null THEN -1
    ELSE IF targetValue = Null THEN 1
    ELSE IF percent = 0
         THEN (IF sourceValue.n = targetValue.n THEN 0
               ELSE IF sourceValue.n < targetValue.n THEN -1 ELSE 1)
    ELSE IF 100 * Abs(sourceValue.n - targetValue.n) <= Abs(targetValue.n * percent)
         THEN 0
    ELSE IF sourceValue.n < targetValue.n THEN -1 ELSE 1

\* compareSortValues(sourceValue, targetValue, percent / 100, 'percentage'),
\* the call that a percentage entered in the sort configuration leads to.
\* diff <= Math.abs(sourceValue * (percent / 100)) is kept in integers by
\* multiplying both sides by 100.
CompareSortValuesPercent(sourceValue, targetValue, percent) ==
    IF sourceValue = Null /\ targetValue = Null THEN 0
    ELSE IF sourceValue = Null THEN -1
    ELSE IF targetValue = Null THEN 1
    ELSE IF percent = 0
         THEN (IF sourceValue.n = targetValue.n THEN 0
               ELSE IF sourceValue.n < targetValue.n THEN -1 ELSE 1)
    ELSE IF 100 * Abs(sourceValue.n - targetValue.n) <= Abs(sourceValue.n * percent)
         THEN 0
    ELSE IF sourceValue.n < targetValue.n THEN -1 ELSE 1

StreamIsNumeric(v) == IsNumber(v)

StreamParseNumeric(v) == IF IsNumber(v) THEN v.n ELSE 0

StreamValuesMatch(value1, value2, cfg) ==
    IF value1 = value2 THEN TRUE
    ELSE IF StreamIsNumeric(value1) /\ StreamIsNumeric(value2)
         THEN LET diff == Abs(StreamParseNumeric(value1) - StreamParseNumeric(value2))
              IN  IF cfg.tolerance # 0 THEN diff <= cfg.tolerance
                  ELSE diff = 0          \* <= 0.000001 on integers
    ELSE StringOf(value1) = StringOf(value2)

StreamGetFieldWeight(fieldName) ==
    IF NameIncludes(fieldName, "amount") \/ NameIncludes(fieldName, "value") THEN 3
    ELSE IF NameIncludes(fieldName, "date") THEN 2
    ELSE IF NameIncludes(fieldName, "id") \/ NameIncludes(fieldName, "reference") THEN 2
    ELSE 1

\* The sum of weight over the mappings 1..k that satisfy Counts
RECURSIVE WeightSum(_, _, _, _, _)
WeightSum(ms, k, sourceRow, targetRow, cfg) ==
    IF k = 0 THEN [matched |-> 0, total |-> 0]
    ELSE LET rest == WeightSum(ms, k - 1, sourceRow, targetRow, cfg)
             m == ms[k]
         IN  IF MappingSkipped(m) THEN rest
             ELSE LET weight == StreamGetFieldWeight(m.sourceColumn)
                      hit == StreamValuesMatch(Cell(sourceRow, m.sourceColumn),
                                               Cell(targetRow, m.targetColumn), cfg)
                  IN  [matched |-> rest.matched + (IF hit THEN weight ELSE 0),
                       total |-> rest.total + weight]

\* A confidence is the fraction num / den, den > 0
Zero == [num |-> 0, den |-> 1]
One == [num |-> 1, den |-> 1]
Greater(a, b) == a.num * b.den > b.num * a.den
SameFraction(a, b) == a.num * b.den = b.num * a.den
\* confidence > 0.3
AboveThreshold(c) == 10 * c.num > 3 * c.den

StreamCalculateMatchConfidence(sourceRow, targetRow, ms, cfg) ==
    LET w == WeightSum(ms, Len(ms), sourceRow, targetRow, cfg)
    IN  IF w.total > 0 THEN [num |-> w.matched, den |-> w.total] ELSE Zero

StreamAreDifferent(sourceValue, targetValue) ==
    IF StreamIsNumeric(sourceValue) /\ StreamIsNumeric(targetValue)
    THEN StreamParseNumeric(sourceValue) # StreamParseNumeric(targetValue)   \* > 0.000001
    ELSE StringOf(sourceValue) # StringOf(targetValue)

RECURSIVE StreamDiscrepanciesUpTo(_, _, _, _)
StreamDiscrepanciesUpTo(ms, k, sourceRow, targetRow) ==
    IF k = 0 THEN <<>>
    ELSE LET rest == StreamDiscrepanciesUpTo(ms, k - 1, sourceRow, targetRow)
             m == ms[k]
         IN  IF MappingSkipped(m) THEN rest
             ELSE LET sv == Cell(sourceRow, m.sourceColumn)
                      tv == Cell(targetRow, m.targetColumn)
                  IN  IF StreamAreDifferent(sv, tv)
                      THEN Append(rest, [column |-> m.sourceColumn, sVal |-> sv, tVal |-> tv])
                      ELSE rest

StreamCalculateDiscrepancies(sourceRow, targetRow, ms) ==
    StreamDiscrepanciesUpTo(ms, Len(ms), sourceRow, targetRow)

RECURSIVE StreamExtractAmountFrom(_, _, _)
StreamExtractAmountFrom(row, ms, k) ==
    IF k > Len(ms) THEN 0
    ELSE LET column == IF ms[k].sourceColumn # "" THEN ms[k].sourceColumn
                       ELSE ms[k].targetColumn
         IN  IF column # "" /\ NameIncludes(column, "amount")
             THEN StreamParseNumeric(Cell(row, column))
             ELSE StreamExtractAmountFrom(row, ms, k + 1)

StreamExtractAmount(row, ms) == StreamExtractAmountFrom(row, ms, 1)

----------------------------------------------------------------------------
(* Verdicts.  sourceRef / targetRef identify the row object a verdict holds: *)
(* the singleton of the record's originalIndex, or the empty set for null.   *)

NoRef == {}
RefOf(record) == {record.originalIndex}

CreateMatchFromRecords(sourceRecord, targetRecord, ms, cfg) ==
    LET confidence == StreamCalculateMatchConfidence(
                          sourceRecord.transformedRow, targetRecord.transformedRow, ms, cfg)
        discrepancies == StreamCalculateDiscrepancies(
                          sourceRecord.transformedRow, targetRecord.transformedRow, ms)
    IN  [sourceRow |-> sourceRecord.transformedRow,
         targetRow |-> targetRecord.transformedRow,
         sourceRef |-> RefOf(sourceRecord),
         targetRef |-> RefOf(targetRecord),
         sourceLine |-> Undefined,
         targetLine |-> Undefined,
         confidence |-> confidence,
         discrepancies |-> discrepancies,
         amount |-> StreamExtractAmount(sourceRecord.transformedRow, ms),
         status |-> IF Len(discrepancies) = 0 THEN "matched" ELSE "discrepancy"]

CreateUnmatchedSourceResult(sourceRecord, ms) ==
    [sourceRow |-> sourceRecord.transformedRow,
     targetRow |-> Null,
     sourceRef |-> RefOf(sourceRecord),
     targetRef |-> NoRef,
     sourceLine |-> Num(sourceRecord.originalIndex + 2),
     targetLine |-> Undefined,
     confidence |-> Zero,
     discrepancies |-> <<>>,
     amount |-> StreamExtractAmount(sourceRecord.transformedRow, ms),
     status |-> "unmatched-source"]

\* the target-only verdict built with the source-side fields
CreateUnmatchedTargetResultAsSource(targetRecord, ms) ==
    [sourceRow |-> targetRecord.transformedRow,
     targetRow |-> Null,
     sourceRef |-> NoRef,
     targetRef |-> RefOf(targetRecord),
     sourceLine |-> Num(targetRecord.originalIndex + 2),
     targetLine |-> Undefined,
     confidence |-> Zero,
     discrepancies |-> <<>>,
     amount |-> StreamExtractAmount(targetRecord.transformedRow, ms),
     status |-> "unmatched-target"]

CreateUnmatchedTargetResult(targetRecord, ms) ==
    [sourceRow |-> Null,
     targetRow |-> targetRecord.transformedRow,
     sourceRef |-> NoRef,
     targetRef |-> RefOf(targetRecord),
     sourceLine |-> Undefined,
     targetLine |-> Num(targetRecord.originalIndex + 2),
     confidence |-> Zero,
     discrepancies |-> <<>>,
     amount |-> StreamExtractAmount(targetRecord.transformedRow, ms),
     status |-> "unmatched-target"]


----------------------------------------------------------------------------
(* Preprocessing: ExpressionEvaluator, TransformationEngine (both in       *)
(* src/src/utils/expressionEvaluator.ts) and DataTransformer               *)
(* (src/src/utils/dataTransformation.ts).                                  *)

Str(s) == [type |-> "string", s |-> s]
IsString(v) == v.type = "string"
NaN == [type |-> "NaN"]

\* the strings of the modelled cells
Texts == {"", "a"}

\* parseFloat: no text of the model starts with a number
ParseFloat(text) == NaN

\* value.trim() === ''
IsBlank(v) == IsString(v) /\ v.s = ""

\* obj[name] = value on a copy of the row
SetColumn(row, name, value) ==
    [c \in DOMAIN row \cup {name} |-> IF c = name THEN value ELSE row[c]]

Success(v) == [success |-> TRUE, value |-> v]
Failure(e) == [success |-> FALSE, error |-> e]

(* ExpressionEvaluator *)

ParseNumber(value) ==
    IF value = Null \/ value = Undefined \/ value = Str("") THEN 0
    ELSE IF IsNumber(value) THEN value.n
    ELSE IF IsString(value)
         THEN IF ParseFloat(value.s) = NaN THEN 0 ELSE ParseFloat(value.s).n
    ELSE 0

\* the time value of the parsed date, or null
ParseDate(value) ==
    IF IsNumber(value) THEN value ELSE Null

MS_PER_DAY == 1000 * 60 * 60 * 24

PerformDateDifference(leftValue, rightValue) ==
    LET leftDate == ParseDate(leftValue)
        rightDate == ParseDate(rightValue)
    IN  IF leftDate = Null \/ rightDate = Null
        THEN Failure("Date difference requires valid dates")
        ELSE Success(Num((leftDate.n - rightDate.n) \div MS_PER_DAY))

PerformArithmetic(leftValue, rightValue, operationName) ==
    LET leftNum == ParseNumber(leftValue)
        rightNum == ParseNumber(rightValue)
    IN  IF operationName = "addition" THEN Success(Num(leftNum + rightNum))
        ELSE Success(Num(leftNum * rightNum))

ApplyOperation(leftValue, rightValue, operation) ==
    CASE operation = "add" -> PerformArithmetic(leftValue, rightValue, "addition")
      [] operation = "multiply" -> PerformArithmetic(leftValue, rightValue, "multiplication")
      [] operation = "date_diff" -> PerformDateDifference(leftValue, rightValue)
      [] OTHER -> Failure("Unsupported operation")

RECURSIVE ApplyOperations(_, _, _, _)
\* the loop `for (let i = 0; i < operations.length && i < fieldValues.length - 1; i++)`
ApplyOperations(fieldValues, operations, k, result) ==
    IF k > Len(operations) \/ k > Len(fieldValues) - 1 THEN Success(result)
    ELSE LET operationResult == ApplyOperation(result, fieldValues[k + 1], operations[k])
         IN  IF ~operationResult.success THEN operationResult
             ELSE ApplyOperations(fieldValues, operations, k + 1, operationResult.value)

RECURSIVE EvaluateFormula(_, _, _)
RECURSIVE GetFieldValue(_, _, _)

\* context = {row, virtualFields: available}
EvaluateFormula(formula, row, available) ==
    IF Len(formula.fields) = 0 THEN Failure("No fields specified in formula")
    ELSE LET fieldValues ==
                 [k \in 1..Len(formula.fields) |->
                     LET value == GetFieldValue(formula.fields[k], row, available)
                     IN  IF value = Undefined THEN Null ELSE value]
         IN  IF Len(fieldValues) = 1 /\ Len(formula.operations) = 0
             THEN Success(fieldValues[1])
             ELSE ApplyOperations(fieldValues, formula.operations, 1, fieldValues[1])

GetFieldValue(field, row, available) ==
    LET found == {k \in 1..Len(available) : available[k].name = field.name}
    IN  IF field.isVirtual /\ found # {}
        THEN LET virtualField == available[CHOOSE k \in found : \A m \in found : k <= m]
                 result == EvaluateFormula(virtualField.formula, row, available)
             IN  IF result.success THEN result.value ELSE Null
        ELSE Cell(row, field.name)

\* context.virtualFields.find(vf => vf.name === name): the position of the
\* first field of that name, 0 if there is none
FindField(fields, name) ==
    IF \E k \in 1..Len(fields) : fields[k].name = name
    THEN CHOOSE k \in 1..Len(fields) :
            /\ fields[k].name = name
            /\ \A q \in 1..(k - 1) : fields[q].name # name
    ELSE 0

Max(S) == CHOOSE x \in S : \A y \in S : y <= x

RECURSIVE Nesting(_, _, _)
\* the deepest evaluateFormula call that evaluateFormula(formula, context)
\* leads to, itself being call number depth: getFieldValue calls
\* evaluateFormula with the same context for every virtual reference it finds
\* in context.virtualFields.  The call number StackLimit exhausts the stack.
Nesting(formula, contextFields, depth) ==
    IF depth >= StackLimit THEN depth
    ELSE Max({depth} \cup
             {Nesting(contextFields[FindField(contextFields, formula.fields[k].name)].formula,
                      contextFields, depth + 1) :
                 k \in {q \in 1..Len(formula.fields) :
                           /\ formula.fields[q].isVirtual
                           /\ FindField(contextFields, formula.fields[q].name) # 0}})

\* the test with its negation dropped: a reference counts as unresolved when
\* its field is already placed
HasPlacedDependencies(field, sorted) ==
    \E k \in 1..Len(field.formula.fields) :
        /\ field.formula.fields[k].isVirtual
        /\ \E m \in 1..Len(sorted) : sorted[m].name = field.formula.fields[k].name

HasUnresolvedDependencies(field, sorted) ==
    \E k \in 1..Len(field.formula.fields) :
        /\ field.formula.fields[k].isVirtual
        /\ ~\E m \in 1..Len(sorted) : sorted[m].name = field.formula.fields[k].name

\* remaining.splice(k, 1)
RemoveAt(seq, k) == SubSeq(seq, 1, k - 1) \o SubSeq(seq, k + 1, Len(seq))

RECURSIVE SortPass(_, _, _)
\* for (let i = remaining.length - 1; i >= 0; i--)
SortPass(sorted, remaining, k) ==
    IF k < 1 THEN [sorted |-> sorted, remaining |-> remaining]
    ELSE IF ~HasUnresolvedDependencies(remaining[k], sorted)
         THEN SortPass(Append(sorted, remaining[k]), RemoveAt(remaining, k), k - 1)
         ELSE SortPass(sorted, remaining, k - 1)

RECURSIVE SortLoop(_, _)
\* while (remaining.length > 0)
SortLoop(sorted, remaining) ==
    IF Len(remaining) = 0 THEN sorted
    ELSE LET pass == SortPass(sorted, remaining, Len(remaining))
         IN  IF Len(pass.remaining) = Len(remaining)
             THEN pass.sorted \o pass.remaining
             ELSE SortLoop(pass.sorted, pass.remaining)

SortVirtualFieldsByDependencies(fields) == SortLoop(<<>>, fields)

RECURSIVE EvaluateRow(_, _, _, _, _, _)
\* for (const virtualField of sortedFields), on the row at position rowNumber
EvaluateRow(sortedFields, k, enhancedRow, available, errors, rowNumber) ==
    IF k > Len(sortedFields) THEN [row |-> enhancedRow, errors |-> errors]
    ELSE LET virtualField == sortedFields[k]
             result == EvaluateFormula(virtualField.formula, enhancedRow, available)
         IN  IF result.success
             THEN EvaluateRow(sortedFields, k + 1,
                              SetColumn(enhancedRow, virtualField.name, result.value),
                              Append(available, virtualField), errors, rowNumber)
             ELSE EvaluateRow(sortedFields, k + 1,
                              SetColumn(enhancedRow, virtualField.name, Null),
                              available,
                              Append(errors, [row |-> rowNumber, field |-> virtualField.name,
                                              error |-> result.error]),
                              rowNumber)

RECURSIVE EvaluateRows(_, _, _, _, _)
\* for (const row of data)
EvaluateRows(sortedFields, rows, k, enhancedData, errors) ==
    IF k > Len(rows)
    THEN [success |-> Len(errors) = 0, data |-> enhancedData, errors |-> errors]
    ELSE LET done == EvaluateRow(sortedFields, 1, rows[k], <<>>, errors, k)
         IN  EvaluateRows(sortedFields, rows, k + 1, Append(enhancedData, done.row), done.errors)

EvaluateVirtualFields(fields, rows) ==
    EvaluateRows(SortVirtualFieldsByDependencies(fields), rows, 1, <<>>, <<>>)

(* TransformationEngine *)

\* what a call returns or that it threw
Returned(v) == [threw |-> FALSE, value |-> v]
Thrown(e) == [threw |-> TRUE, error |-> e]

FillNull(value, params) ==
    LET isNull == value = Null \/ value = Undefined
        isEmpty == params.treatEmptyAsNull /\ (value = Str("") \/ IsBlank(value))
        isZero == params.treatZeroAsNull /\ value = Num(0)
    IN  IF isNull \/ isEmpty \/ isZero THEN Returned(params.fillValue)
        ELSE Returned(value)

ExcludeIfNull(value, params) ==
    LET isNull == value = Null \/ value = Undefined
        isEmpty == params.treatEmptyAsNull /\ (value = Str("") \/ IsBlank(value))
    IN  IF isNull \/ isEmpty THEN Thrown("EXCLUDE_ROW: Value is missing")
        ELSE Returned(value)

NegateNumber(value) ==
    LET num == IF IsNumber(value) THEN value ELSE ParseFloat(value.s)
    IN  IF num = NaN THEN Thrown("Cannot negate non-numeric value")
        ELSE Returned(Num(-num.n))

ApplyTransformation(value, type, parameters) ==
    IF value = Null \/ value = Undefined THEN Returned(value)
    ELSE CASE type = "negate_number" -> NegateNumber(value)
           [] type = "fill_null" -> FillNull(value, parameters)
           [] type = "exclude_if_null" -> ExcludeIfNull(value, parameters)
           [] OTHER -> Thrown("Unsupported transformation type")

\* a step without the try/catch: the exception of the transformation leaves it
ExecuteStepWithoutCatch(value, step) ==
    LET applied == ApplyTransformation(value, step.type, step.parameters)
    IN  IF applied.threw THEN applied
        ELSE [threw |-> FALSE, success |-> TRUE, value |-> applied.value, error |-> Undefined]

ExecuteStep(value, step) ==
    LET applied == ApplyTransformation(value, step.type, step.parameters)
    IN  IF applied.threw
        THEN [threw |-> FALSE, success |-> FALSE, value |-> value, error |-> applied.error]
        ELSE [threw |-> FALSE, success |-> TRUE, value |-> applied.value, error |-> Undefined]

\* one insertion of the stable sort by order
InsertByOrder(sorted, step) ==
    LET after == {k \in 1..Len(sorted) : sorted[k].order > step.order}
        at == IF after = {} THEN Len(sorted) + 1
              ELSE CHOOSE k \in after : \A m \in after : k <= m
    IN  SubSeq(sorted, 1, at - 1) \o <<step>> \o SubSeq(sorted, at, Len(sorted))

RECURSIVE SortSteps(_, _)
\* [...pipeline.steps].sort((a, b) => a.order - b.order)
SortSteps(steps, k) ==
    IF k = 0 THEN <<>> ELSE InsertByOrder(SortSteps(steps, k - 1), steps[k])

RECURSIVE RunSteps(_, _, _, _, _)
\* for (const step of sortedSteps); every step result also keeps the value
\* the step was given (input)
RunSteps(sortedSteps, k, currentValue, overallSuccess, stepResults) ==
    IF k > Len(sortedSteps)
    THEN [threw |-> FALSE, success |-> overallSuccess, transformedValue |-> currentValue,
          stepResults |-> stepResults]
    ELSE LET stepResult == ExecuteStep(currentValue, sortedSteps[k])
             recorded == [stepId |-> sortedSteps[k].id, success |-> stepResult.success,
                          value |-> stepResult.value, error |-> stepResult.error,
                          input |-> currentValue]
         IN  IF stepResult.threw
             THEN [threw |-> TRUE, success |-> FALSE, transformedValue |-> currentValue,
                   stepResults |-> stepResults]
             ELSE IF stepResult.success
             THEN RunSteps(sortedSteps, k + 1, stepResult.value, overallSuccess,
                           Append(stepResults, recorded))
             ELSE RunSteps(sortedSteps, k + 1, currentValue, FALSE,
                           Append(stepResults, recorded))

ExecutePipeline(value, pipeline) ==
    LET run == RunSteps(SortSteps(pipeline.steps, Len(pipeline.steps)), 1, value, TRUE, <<>>)
    IN  [threw |-> run.threw,
         success |-> run.success,
         originalValue |-> value,
         transformedValue |-> run.transformedValue,
         error |-> IF run.success THEN Undefined
                   ELSE Str("One or more transformation steps failed"),
         stepResults |-> run.stepResults]

(* TransformationEngine.validateStep / validatePipeline *)

Bool(b) == [type |-> "boolean", b |-> b]

TimezoneOptions == {"UTC", "America/New_York", "America/Los_Angeles", "America/Chicago"}

\* TRANSFORMATION_CONFIGS[type].parameters for the step types of the model;
\* options is the set of the option values
TransformationParameters(type) ==
    CASE type = "cast_to_date" ->
            <<[name |-> "inputFormat", type |-> "select", required |-> FALSE,
               options |-> {"auto", "MM/DD/YYYY", "DD/MM/YYYY", "YYYY-MM-DD", "DD-MM-YYYY",
                            "DD-MM-YYYY HH:mm", "MM-DD-YYYY HH:mm"}],
              [name |-> "strictParsing", type |-> "boolean", required |-> FALSE,
               options |-> {}]>>
      [] type = "convert_timezone" ->
            <<[name |-> "fromTimezone", type |-> "select", required |-> TRUE,
               options |-> {"auto"} \cup TimezoneOptions],
              [name |-> "toTimezone", type |-> "select", required |-> TRUE,
               options |-> TimezoneOptions]>>
      [] type = "negate_number" -> <<>>

KnownTypes == {"cast_to_date", "convert_timezone", "negate_number"}

\* the errors one parameter adds
ParameterErrors(paramConfig, value) ==
    IF paramConfig.required /\ (value = Undefined \/ value = Null)
    THEN <<[kind |-> "missing", parameter |-> paramConfig.name]>>
    ELSE IF value = Undefined \/ value = Null THEN <<>>
    ELSE IF paramConfig.type = "boolean" /\ value.type # "boolean"
    THEN <<[kind |-> "not a boolean", parameter |-> paramConfig.name]>>
    ELSE IF /\ paramConfig.type = "select"
            /\ ~(IsString(value) /\ value.s \in paramConfig.options)
    THEN <<[kind |-> "not an option", parameter |-> paramConfig.name]>>
    ELSE <<>>

RECURSIVE StepErrors(_, _, _)
StepErrors(step, parameters, k) ==
    IF k > Len(parameters) THEN <<>>
    ELSE ParameterErrors(parameters[k], Cell(step.parameters, parameters[k].name))
         \o StepErrors(step, parameters, k + 1)

ValidateStep(step) ==
    IF step.type \notin KnownTypes
    THEN [valid |-> FALSE, errors |-> <<[kind |-> "unknown type", parameter |-> ""]>>]
    ELSE LET errors == StepErrors(step, TransformationParameters(step.type), 1)
         IN  [valid |-> Len(errors) = 0, errors |-> errors]

RECURSIVE StepValidationErrors(_, _)
\* for (const step of pipeline.steps): one error for each invalid step
StepValidationErrors(steps, k) ==
    IF k > Len(steps) THEN <<>>
    ELSE (IF ValidateStep(steps[k]).valid THEN <<>>
          ELSE <<[kind |-> "step", step |-> steps[k].id]>>)
         \o StepValidationErrors(steps, k + 1)

\* steps.some(s => s.type === type)
HasStepOfType(steps, type) == \E k \in 1..Len(steps) : steps[k].type = type

\* steps.findIndex(s => s.type === type), counted from 0, -1 if there is none
FindStepIndex(steps, type) ==
    IF HasStepOfType(steps, type)
    THEN (CHOOSE k \in 1..Len(steps) :
             /\ steps[k].type = type
             /\ \A q \in 1..(k - 1) : steps[q].type # type) - 1
    ELSE -1

\* the errors that name no step carry step 0
OrderError == [kind |-> "order", step |-> 0]

ValidatePipeline(pipeline) ==
    IF Len(pipeline.steps) = 0
    THEN [valid |-> FALSE, errors |-> <<[kind |-> "empty", step |-> 0]>>]
    ELSE LET errors == StepValidationErrors(pipeline.steps, 1)
             hasDateCast == HasStepOfType(pipeline.steps, "cast_to_date")
             hasTimezoneConversion == HasStepOfType(pipeline.steps, "convert_timezone")
             dateStepIndex == FindStepIndex(pipeline.steps, "cast_to_date")
             timezoneStepIndex == FindStepIndex(pipeline.steps, "convert_timezone")
             all == IF /\ hasTimezoneConversion /\ ~hasDateCast
                       /\ dateStepIndex > timezoneStepIndex
                    THEN Append(errors, OrderError)
                    ELSE errors
         IN  [valid |-> Len(all) = 0, errors |-> all]

(* DataTransformer *)

ComputeVirtualFields(rows, fields) ==
    IF Len(fields) = 0 THEN rows
    ELSE LET result == EvaluateVirtualFields(fields, rows)
         IN  IF result.success THEN result.data ELSE rows

\* pipeline.outputColumn || pipeline.columnId
TargetField(pipeline) ==
    IF pipeline.outputColumn # "" THEN pipeline.outputColumn ELSE pipeline.columnId

RECURSIVE ApplyPipelines(_, _, _)
\* transformations.forEach(pipeline => ...) on the copy of one row
ApplyPipelines(newRow, pipelines, k) ==
    IF k > Len(pipelines) THEN newRow
    ELSE LET pipeline == pipelines[k]
         IN  IF Cell(newRow, pipeline.columnId) # Undefined
             THEN LET result == ExecutePipeline(newRow[pipeline.columnId], pipeline)
                  IN  IF result.success
                      THEN ApplyPipelines(
                               SetColumn(newRow, TargetField(pipeline), result.transformedValue),
                               pipelines, k + 1)
                      ELSE ApplyPipelines(newRow, pipelines, k + 1)
             ELSE ApplyPipelines(newRow, pipelines, k + 1)

\* DataTransformer.parseNumber: a string is cleaned and goes through
\* parseFloat, whose NaN becomes 0; anything but a number or a string is 0
TransformParseNumber(value) ==
    IF IsNumber(value) THEN value.n
    ELSE IF IsString(value)
         THEN (IF ParseFloat(value.s) = NaN THEN 0 ELSE ParseFloat(value.s).n)
    ELSE 0

\* a mapping of the model without a matchType field is an 'exact' mapping
\* without formula; a formula of the model names its columns in sourceColumns
\* and targetColumns, "" standing for a column that is not set
HasFormula(mapping) ==
    /\ "matchType" \in DOMAIN mapping
    /\ mapping.matchType = "formula"
    /\ "formula" \in DOMAIN mapping

NoTransformation == [applied |-> FALSE, data |-> <<>>]

\* data is the list of the <<column, value>> pairs of the returned object
DebitCreditToAmount(row, mapping) ==
    LET debitCol == mapping.formula.sourceColumns.debit
        creditCol == mapping.formula.sourceColumns.credit
        targetCol == mapping.targetColumn
    IN  IF debitCol = "" \/ creditCol = "" \/ targetCol = "" THEN NoTransformation
        ELSE LET debitValue == TransformParseNumber(Cell(row, debitCol))
                 creditValue == TransformParseNumber(Cell(row, creditCol))
             IN  [applied |-> TRUE,
                  data |-> <<<<targetCol, Num(creditValue - debitValue)>>>>]

\* the two sides exchanged: a positive amount goes to the debit column
AmountToDebitCreditSwapped(row, mapping) ==
    LET amount == TransformParseNumber(Cell(row, mapping.formula.sourceColumns.amount))
    IN  [applied |-> TRUE,
         data |-> <<<<mapping.formula.targetColumns.debit,
                      Num(IF amount > 0 THEN amount ELSE 0)>>,
                    <<mapping.formula.targetColumns.credit,
                      Num(IF amount < 0 THEN Abs(amount) ELSE 0)>>>>]

AmountToDebitCredit(row, mapping) ==
    LET amountCol == mapping.formula.sourceColumns.amount
        targetDebitCol == mapping.formula.targetColumns.debit
        targetCreditCol == mapping.formula.targetColumns.credit
    IN  IF amountCol = "" \/ targetDebitCol = "" \/ targetCreditCol = ""
        THEN NoTransformation
        ELSE LET amount == TransformParseNumber(Cell(row, amountCol))
                 debit == IF amount < 0 THEN Abs(amount) ELSE 0
                 credit == IF amount > 0 THEN amount ELSE 0
             IN  [applied |-> TRUE,
                  data |-> <<<<targetDebitCol, Num(debit)>>,
                             <<targetCreditCol, Num(credit)>>>>]

\* customFormula is a placeholder that returns null
ApplyFormula(row, mapping, isSource) ==
    IF mapping.formula.type = "debit_credit_to_amount"
    THEN DebitCreditToAmount(row, mapping)
    ELSE IF mapping.formula.type = "amount_to_debit_credit"
    THEN AmountToDebitCredit(row, mapping)
    ELSE NoTransformation

RECURSIVE AssignAll(_, _, _)
\* Object.assign(transformedRow, transformation.data)
AssignAll(transformedRow, data, k) ==
    IF k > Len(data) THEN transformedRow
    ELSE AssignAll(SetColumn(transformedRow, data[k][1], data[k][2]), data, k + 1)

RECURSIVE ApplyMappings(_, _, _, _, _)
\* mappings.forEach(mapping => ...): each formula reads the row as it came in
ApplyMappings(row, transformedRow, ms, k, isSource) ==
    IF k > Len(ms) THEN transformedRow
    ELSE IF HasFormula(ms[k])
         THEN LET transformation == ApplyFormula(row, ms[k], isSource)
              IN  ApplyMappings(row,
                                IF transformation.applied
                                THEN AssignAll(transformedRow, transformation.data, 1)
                                ELSE transformedRow,
                                ms, k + 1, isSource)
    ELSE ApplyMappings(row, transformedRow, ms, k + 1, isSource)

RECURSIVE AppliedCount(_, _, _, _)
\* appliedTransformations holds one description for each applied formula; the
\* model keeps their number
AppliedCount(row, ms, k, isSource) ==
    IF k > Len(ms) THEN 0
    ELSE (IF HasFormula(ms[k]) /\ ApplyFormula(row, ms[k], isSource).applied THEN 1 ELSE 0)
         + AppliedCount(row, ms, k + 1, isSource)

TransformData(rows, ms, isSource) ==
    [k \in 1..Len(rows) |->
        [originalRow |-> rows[k],
         transformedRow |-> ApplyMappings(rows[k], rows[k], ms, 1, isSource),
         appliedTransformations |->
             [q \in 1..AppliedCount(rows[k], ms, 1, isSource) |-> "description"]]]

TransformDataWithVirtualFields(rows, fields, ms, isSource, pipelines) ==
    LET computed == ComputeVirtualFields(rows, fields)
        currentData == IF Len(pipelines) > 0
                       THEN [k \in 1..Len(computed) |-> ApplyPipelines(computed[k], pipelines, 1)]
                       ELSE computed
    IN  TransformData(currentData, ms, isSource)

\* the call of the reconciliation engines on the modelled sheets, which carry
\* no virtual fields and no pipelines: computeVirtualFields returns the data,
\* the pipeline branch is skipped and the rows go to transformData
TransformPlainRows(rows) == TransformData(rows, mappings, TRUE)

----------------------------------------------------------------------------
(* extractAndSortData *)

\* the comparator of records.sort(...)
SortComparator(a, b) ==
    IF a.sortValue = Null /\ b.sortValue = Null THEN 0
    ELSE IF a.sortValue = Null THEN -1
    ELSE IF b.sortValue = Null THEN 1
    ELSE IF a.sortValue.n < b.sortValue.n THEN -1
    ELSE IF a.sortValue.n > b.sortValue.n THEN 1 ELSE 0

\* an unstable insertion: the record goes in front of the records it ties with
RECURSIVE InsertSortedBeforeTies(_, _)
InsertSortedBeforeTies(sorted, r) ==
    IF sorted = <<>> THEN <<r>>
    ELSE IF SortComparator(sorted[Len(sorted)], r) >= 0
         THEN Append(InsertSortedBeforeTies(SubSeq(sorted, 1, Len(sorted) - 1), r),
                     sorted[Len(sorted)])
         ELSE Append(sorted, r)

\* Array.prototype.sort is stable: a record goes behind every record that
\* does not compare greater than it
RECURSIVE InsertSorted(_, _)
InsertSorted(sorted, r) ==
    IF sorted = <<>> THEN <<r>>
    ELSE IF SortComparator(sorted[Len(sorted)], r) > 0
         THEN Append(InsertSorted(SubSeq(sorted, 1, Len(sorted) - 1), r), sorted[Len(sorted)])
         ELSE Append(sorted, r)

RECURSIVE StableSort(_, _)
StableSort(records, k) ==
    IF k = 0 THEN <<>> ELSE InsertSorted(StableSort(records, k - 1), records[k])

\* records.push({originalIndex: startRow + i - 1, sortValue, transformedRow})
ExtractRecords(file, sortKey) ==
    LET chunk == TransformPlainRows(file)
    IN  [k \in 1..Len(file) |->
            [originalIndex |-> k - 1,
             sortValue |-> ExtractSortValue(chunk[k].transformedRow, sortKey),
             transformedRow |-> chunk[k].transformedRow]]

ExtractAndSortData(file, sortKey) ==
    LET records == ExtractRecords(file, sortKey)
    IN  StableSort(records, Len(records))

----------------------------------------------------------------------------
(* twoPointerReconciliation: one pass of the for loop over the sources *)

Compare(sourceRecord, targetRecord, cfg) ==
    CompareSortValues(sourceRecord.sortValue, targetRecord.sortValue,
                      cfg.tolerance, cfg.toleranceUnit)

\* while (j < m && !matchedTargetIndices.has(j)) { if (comp > 0) j++ else break }
RECURSIVE AdvanceWindowStart(_, _, _, _, _)
AdvanceWindowStart(sourceRecord, targets, jj, matched, cfg) ==
    IF jj <= Len(targets) /\ jj \notin matched
       /\ Compare(sourceRecord, targets[jj], cfg) > 0
    THEN AdvanceWindowStart(sourceRecord, targets, jj + 1, matched, cfg)
    ELSE jj

NoBest == [found |-> FALSE, bestConf |-> [num |-> -1, den |-> 1], bestTargetIndex |-> 0]

\* for (let k = j; k < m; k++) { ... }
RECURSIVE ScanWindow(_, _, _, _, _, _, _)
ScanWindow(sourceRecord, targets, k, matched, best, ms, cfg) ==
    IF k > Len(targets) THEN best
    ELSE IF k \in matched
         THEN ScanWindow(sourceRecord, targets, k + 1, matched, best, ms, cfg)
    ELSE LET comp == Compare(sourceRecord, targets[k], cfg)
         IN  IF comp < 0 THEN best
             ELSE IF comp = 0
                  THEN LET match == CreateMatchFromRecords(sourceRecord, targets[k], ms, cfg)
                       IN  IF Greater(match.confidence, best.bestConf)
                           THEN ScanWindow(sourceRecord, targets, k + 1, matched,
                                    [found |-> TRUE, bestMatch |-> match,
                                     bestConf |-> match.confidence,
                                     bestTargetIndex |-> k], ms, cfg)
                           ELSE ScanWindow(sourceRecord, targets, k + 1, matched, best, ms, cfg)
             ELSE ScanWindow(sourceRecord, targets, k + 1, matched, best, ms, cfg)

\* if (bestMatch && bestConf > 0.3)
Accepts(best) == best.found /\ AboveThreshold(best.bestConf)

\* the body of for (let i = 0; i < n; i++): the new window start, the new
\* set of matched targets and the verdict pushed
SweepOne(sourceRecord, targets, jj, matched, ms, cfg) ==
    LET start == AdvanceWindowStart(sourceRecord, targets, jj, matched, cfg)
        best == ScanWindow(sourceRecord, targets, start, matched, NoBest, ms, cfg)
    IN  IF Accepts(best)
        THEN [j |-> start, matched |-> matched \cup {best.bestTargetIndex},
              verdict |-> best.bestMatch]
        ELSE [j |-> start, matched |-> matched,
              verdict |-> CreateUnmatchedSourceResult(sourceRecord, ms)]

\* the closing loop without its matchedTargetIndices.has(k) test
RemainingTargetResultsUnfiltered(targets, k, matched, ms) ==
    [q \in 1..(Len(targets) - k + 1) |-> CreateUnmatchedTargetResult(targets[k + q - 1], ms)]

\* the unmatched-target verdicts of the closing loop, for the targets k..m
RECURSIVE RemainingTargetResults(_, _, _, _)
RemainingTargetResults(targets, k, matched, ms) ==
    IF k > Len(targets) THEN <<>>
    ELSE (IF k \in matched THEN <<>> ELSE <<CreateUnmatchedTargetResult(targets[k], ms)>>)
         \o RemainingTargetResults(targets, k + 1, matched, ms)

\* twoPointerReconciliation as a whole, from source position k on
RECURSIVE TwoPointerFrom(_, _, _, _, _, _, _)
TwoPointerFrom(sources, targets, k, jj, matched, ms, cfg) ==
    IF k > Len(sources) THEN RemainingTargetResults(targets, 1, matched, ms)
    ELSE LET pass == SweepOne(sources[k], targets, jj, matched, ms, cfg)
         IN  <<pass.verdict>>
             \o TwoPointerFrom(sources, targets, k + 1, pass.j, pass.matched, ms, cfg)

TwoPointerReconciliation(sources, targets, ms, cfg) ==
    TwoPointerFrom(sources, targets, 1, 1, {}, ms, cfg)

----------------------------------------------------------------------------
(* Inputs *)

ToleranceUnits == {"minutes", "hours", "days", "amount", "percentage", "exact"}
MatchStrategies == {"exact", "fuzzy", "smart"}

KeyCells == {Null, Num(1), Num(2)}
AmountCells == {Num(1), Num(2)}

StreamRows == [date : KeyCells, amount : AmountCells]

SeqsUpTo(S, n) == UNION {[1..k -> S] : k \in 0..n}

AmountMapping == [sourceColumn |-> "amount", targetColumn |-> "amount"]
DateMapping == [sourceColumn |-> "date", targetColumn |-> "date"]
MappingLists == {<<AmountMapping>>, <<DateMapping, AmountMapping>>}

StreamConfigs ==
    [sourceSortKey : {"date"}, targetSortKey : {"date"},
     tolerance : 0..MaxTolerance, toleranceUnit : ToleranceUnits,
     matchStrategy : MatchStrategies]

InitStream ==
    /\ engine = "streaming"
    /\ sourceFile \in SeqsUpTo(StreamRows, MaxRows)
    /\ targetFile \in SeqsUpTo(StreamRows, MaxRows - Len(sourceFile))
    /\ mappings \in MappingLists
    /\ config \in StreamConfigs
    /\ estimatedRows \in {Len(sourceFile) + Len(targetFile), STREAM_THRESHOLD + 1}
    /\ pc = "start"
    /\ sourceRecords = <<>>
    /\ targetRecords = <<>>
    /\ i = 1
    /\ j = 1
    /\ matchedTargetIndices = {}
    /\ results = <<>>
    /\ PrepIdle

----------------------------------------------------------------------------
(* reconcileStreaming -> reconcileInMemory *)

\* a dispatch that takes the in-memory mode for every strategy but exact
ReconcileInMemoryByStrategy ==
    /\ engine = "streaming" /\ pc = "start"
    /\ config.matchStrategy # "exact"
    /\ sourceRecords' = ExtractAndSortData(sourceFile, config.sourceSortKey)
    /\ targetRecords' = ExtractAndSortData(targetFile, config.targetSortKey)
    /\ pc' = "matching"
    /\ UNCHANGED <<engine, sourceFile, targetFile, mappings, config, estimatedRows,
                   i, j, matchedTargetIndices, results>>
    /\ UNCHANGED prepVars

\* phases 1 and 2: both files are extracted and sorted
ReconcileInMemory ==
    /\ engine = "streaming" /\ pc = "start"
    /\ ~(estimatedRows > STREAM_THRESHOLD)
    /\ sourceRecords' = ExtractAndSortData(sourceFile, config.sourceSortKey)
    /\ targetRecords' = ExtractAndSortData(targetFile, config.targetSortKey)
    /\ pc' = "matching"
    /\ UNCHANGED <<engine, sourceFile, targetFile, mappings, config, estimatedRows,
                   i, j, matchedTargetIndices, results>>
    /\ UNCHANGED prepVars

\* phase 3, one source record
SourceSweep ==
    /\ pc = "matching" /\ i <= Len(sourceRecords)
    /\ LET pass == SweepOne(sourceRecords[i], targetRecords, j,
                            matchedTargetIndices, mappings, config)
       IN  /\ j' = pass.j
           /\ matchedTargetIndices' = pass.matched
           /\ results' = Append(results, pass.verdict)
    /\ i' = i + 1
    /\ UNCHANGED <<engine, sourceFile, targetFile, mappings, config, estimatedRows, pc,
                   sourceRecords, targetRecords>>
    /\ UNCHANGED prepVars

\* phase 3, the remaining target records
RemainingTargets ==
    /\ pc = "matching" /\ i > Len(sourceRecords)
    /\ results' = results \o RemainingTargetResults(targetRecords, 1,
                                                    matchedTargetIndices, mappings)
    /\ pc' = "done"
    /\ UNCHANGED <<engine, sourceFile, targetFile, mappings, config, estimatedRows,
                   sourceRecords, targetRecords, i, j, matchedTargetIndices>>
    /\ UNCHANGED prepVars

----------------------------------------------------------------------------
(* reconcileStreaming -> reconcileWithTrueStreaming *)

\* the k-th record createLineByLineReader yields: the rows in file order
LineRecord(file, k, sortKey) ==
    LET transformedData == TransformPlainRows(<<file[k]>>)
    IN  [originalIndex |-> k - 1,
         sortValue |-> ExtractSortValue(transformedData[1].transformedRow, sortKey),
         transformedRow |-> transformedData[1].transformedRow]

\* both readers are created and their first records read
StartTrueStreaming ==
    /\ engine = "streaming" /\ pc = "start"
    /\ estimatedRows > STREAM_THRESHOLD
    /\ i' = 1 /\ j' = 1
    /\ pc' = "walk"
    /\ UNCHANGED <<engine, sourceFile, targetFile, mappings, config, estimatedRows,
                   sourceRecords, targetRecords, matchedTargetIndices, results>>
    /\ UNCHANGED prepVars

\* the main loop with the two unmatched branches exchanged
WalkStepBranchesSwapped ==
    /\ pc = "walk" /\ i <= Len(sourceFile) /\ j <= Len(targetFile)
    /\ LET sourceRecord == LineRecord(sourceFile, i, config.sourceSortKey)
           targetRecord == LineRecord(targetFile, j, config.targetSortKey)
           comparison == Compare(sourceRecord, targetRecord, config)
       IN  IF comparison = 0
           THEN /\ results' = Append(results,
                        CreateMatchFromRecords(sourceRecord, targetRecord, mappings, config))
                /\ i' = i + 1 /\ j' = j + 1
           ELSE IF comparison > 0
           THEN /\ results' = Append(results,
                        CreateUnmatchedSourceResult(sourceRecord, mappings))
                /\ i' = i + 1 /\ j' = j
           ELSE /\ results' = Append(results,
                        CreateUnmatchedTargetResult(targetRecord, mappings))
                /\ i' = i /\ j' = j + 1
    /\ UNCHANGED <<engine, sourceFile, targetFile, mappings, config, estimatedRows, pc,
                   sourceRecords, targetRecords, matchedTargetIndices>>
    /\ UNCHANGED prepVars

\* one pass of while (!sourceRecord.done && !targetRecord.done)
WalkStep ==
    /\ pc = "walk" /\ i <= Len(sourceFile) /\ j <= Len(targetFile)
    /\ LET sourceRecord == LineRecord(sourceFile, i, config.sourceSortKey)
           targetRecord == LineRecord(targetFile, j, config.targetSortKey)
           comparison == Compare(sourceRecord, targetRecord, config)
       IN  IF comparison = 0
           THEN /\ results' = Append(results,
                        CreateMatchFromRecords(sourceRecord, targetRecord, mappings, config))
                /\ i' = i + 1 /\ j' = j + 1
           ELSE IF comparison < 0
           THEN /\ results' = Append(results,
                        CreateUnmatchedSourceResult(sourceRecord, mappings))
                /\ i' = i + 1 /\ j' = j
           ELSE /\ results' = Append(results,
                        CreateUnmatchedTargetResult(targetRecord, mappings))
                /\ i' = i /\ j' = j + 1
    /\ UNCHANGED <<engine, sourceFile, targetFile, mappings, config, estimatedRows, pc,
                   sourceRecords, targetRecords, matchedTargetIndices>>
    /\ UNCHANGED prepVars

\* the termination phase: the records left on either side
WalkRemaining ==
    /\ pc = "walk" /\ ~(i <= Len(sourceFile) /\ j <= Len(targetFile))
    /\ results' = results
          \o [k \in 1..(Len(sourceFile) - i + 1) |->
                CreateUnmatchedSourceResult(
                    LineRecord(sourceFile, i + k - 1, config.sourceSortKey), mappings)]
          \o [k \in 1..(Len(targetFile) - j + 1) |->
                CreateUnmatchedTargetResult(
                    LineRecord(targetFile, j + k - 1, config.targetSortKey), mappings)]
    /\ i' = Len(sourceFile) + 1
    /\ j' = Len(targetFile) + 1
    /\ pc' = "done"
    /\ UNCHANGED <<engine, sourceFile, targetFile, mappings, config, estimatedRows,
                   sourceRecords, targetRecords, matchedTargetIndices>>
    /\ UNCHANGED prepVars

NextStream ==
    \/ ReconcileInMemory
    \/ SourceSweep
    \/ RemainingTargets
    \/ StartTrueStreaming
    \/ WalkStep
    \/ WalkRemaining

SpecStream == InitStream /\ [][NextStream]_vars


----------------------------------------------------------------------------
(* ReconciliationEngine: helpers *)

BatchIsNumeric(v) == IsNumber(v)

BatchParseNumeric(v) == IF IsNumber(v) THEN v.n ELSE 0

\* no cell of the model is a string or a Date: the last two branches of
\* valuesMatch end in `return false`
BatchValuesMatch(value1, value2, cfg) ==
    IF value1 = value2 THEN TRUE
    ELSE IF BatchIsNumeric(value1) /\ BatchIsNumeric(value2)
         THEN Abs(BatchParseNumeric(value1) - BatchParseNumeric(value2)) <= cfg.tolerance
    ELSE FALSE

BatchGetFieldWeight(fieldName) ==
    IF NameIncludes(fieldName, "id") \/ NameIncludes(fieldName, "reference") THEN 3
    ELSE IF NameIncludes(fieldName, "amount") \/ NameIncludes(fieldName, "value") THEN 3
    ELSE IF NameIncludes(fieldName, "date") THEN 2
    ELSE IF NameIncludes(fieldName, "description") \/ NameIncludes(fieldName, "details") THEN 2
    ELSE 1

RECURSIVE BatchWeightSum(_, _, _, _, _)
BatchWeightSum(ms, k, sourceRow, targetRow, cfg) ==
    IF k = 0 THEN [matched |-> 0, total |-> 0]
    ELSE LET rest == BatchWeightSum(ms, k - 1, sourceRow, targetRow, cfg)
             m == ms[k]
         IN  IF MappingSkipped(m) THEN rest
             ELSE LET weight == BatchGetFieldWeight(m.sourceColumn)
                      hit == BatchValuesMatch(Cell(sourceRow, m.sourceColumn),
                                              Cell(targetRow, m.targetColumn), cfg)
                  IN  [matched |-> rest.matched + (IF hit THEN weight ELSE 0),
                       total |-> rest.total + weight]

BatchCalculateMatchConfidence(sourceRow, targetRow, ms, cfg) ==
    LET w == BatchWeightSum(ms, Len(ms), sourceRow, targetRow, cfg)
    IN  IF w.total > 0 THEN [num |-> w.matched, den |-> w.total] ELSE Zero

BatchAreDifferent(sourceValue, targetValue, cfg) ==
    IF BatchIsNumeric(sourceValue) /\ BatchIsNumeric(targetValue)
    THEN LET diff == Abs(BatchParseNumeric(sourceValue) - BatchParseNumeric(targetValue))
         IN  IF cfg.tolerance # 0 THEN diff > cfg.tolerance
             ELSE diff # 0               \* > 0.000001 on integers
    ELSE StringOf(sourceValue) # StringOf(targetValue)

RECURSIVE BatchDiscrepanciesUpTo(_, _, _, _, _)
BatchDiscrepanciesUpTo(ms, k, sourceRow, targetRow, cfg) ==
    IF k = 0 THEN <<>>
    ELSE LET rest == BatchDiscrepanciesUpTo(ms, k - 1, sourceRow, targetRow, cfg)
             m == ms[k]
         IN  IF MappingSkipped(m) THEN rest
             ELSE LET sv == Cell(sourceRow, m.sourceColumn)
                      tv == Cell(targetRow, m.targetColumn)
                  IN  IF BatchAreDifferent(sv, tv, cfg)
                      THEN Append(rest, [column |-> m.targetColumn, sVal |-> sv, tVal |-> tv])
                      ELSE rest

BatchCalculateDiscrepancies(sourceRow, targetRow, ms, cfg) ==
    BatchDiscrepanciesUpTo(ms, Len(ms), sourceRow, targetRow, cfg)

----------------------------------------------------------------------------
(* findMatches *)

\* confidence > 0.8
AboveExact(c) == 10 * c.num > 8 * c.den

\* the targets 1..k whose confidence exceeds 0.3, in target order
RECURSIVE Candidates(_, _, _, _, _)
Candidates(sourceItem, targetItems, k, ms, cfg) ==
    IF k = 0 THEN <<>>
    ELSE LET confidence == BatchCalculateMatchConfidence(
                 sourceItem.transformedRow, targetItems[k].transformedRow, ms, cfg)
             rest == Candidates(sourceItem, targetItems, k - 1, ms, cfg)
         IN  IF AboveThreshold(confidence)
             THEN Append(rest, [targetItem |-> targetItems[k], targetIndex |-> k,
                                confidence |-> confidence])
             ELSE rest

\* matches.sort((a, b) => b.confidence - a.confidence), a stable sort
RECURSIVE InsertByConfidence(_, _)
InsertByConfidence(sorted, c) ==
    IF sorted = <<>> THEN <<c>>
    ELSE IF Greater(c.confidence, sorted[Len(sorted)].confidence)
         THEN Append(InsertByConfidence(SubSeq(sorted, 1, Len(sorted) - 1), c),
                     sorted[Len(sorted)])
         ELSE Append(sorted, c)

RECURSIVE SortByConfidence(_, _)
SortByConfidence(matches, k) ==
    IF k = 0 THEN <<>>
    ELSE InsertByConfidence(SortByConfidence(matches, k - 1), matches[k])

RECURSIVE FilterExact(_, _)
FilterExact(matches, k) ==
    IF k = 0 THEN <<>>
    ELSE FilterExact(matches, k - 1)
         \o (IF AboveExact(matches[k].confidence) THEN <<matches[k]>> ELSE <<>>)

\* Array.prototype.slice(0, n)
Slice(matches, n) == SubSeq(matches, 1, IF n < Len(matches) THEN n ELSE Len(matches))

FindMatches(sourceItem, targetItems, ms, cfg) ==
    LET found == Candidates(sourceItem, targetItems, Len(targetItems), ms, cfg)
        matches == SortByConfidence(found, Len(found))
        exactMatches == FilterExact(matches, Len(matches))
    IN  IF cfg.matchStrategy = "exact" THEN exactMatches
        ELSE IF cfg.matchStrategy = "fuzzy" THEN Slice(matches, 3)
        ELSE IF Len(exactMatches) > 0 THEN exactMatches ELSE Slice(matches, 1)


----------------------------------------------------------------------------
(* getRowId / hashRow.  Strings are sequences of character codes. *)

CharCodes(name) ==
    CASE name = "amount" -> <<97, 109, 111, 117, 110, 116>>
      [] name = "date"   -> <<100, 97, 116, 101>>
      [] name = "id"     -> <<105, 100>>
      [] name = "null"   -> <<110, 117, 108, 108>>
      [] name = "Amount" -> <<65, 109, 111, 117, 110, 116>>
      [] name = "Cr"     -> <<67, 114>>
      [] name = "Dr"     -> <<68, 114>>

RECURSIVE Digits(_, _)
\* Number.prototype.toString(radix) of n >= 0
Digits(n, radix) ==
    LET d == n % radix
        c == IF d < 10 THEN 48 + d ELSE 87 + d
    IN  IF n < radix THEN <<c>> ELSE Append(Digits(n \div radix, radix), c)

\* String(value) / JSON.stringify(value) of a cell: both give the same text
CellText(v) ==
    IF IsNumber(v)
    THEN IF v.n < 0 THEN <<45>> \o Digits(-v.n, 10) ELSE Digits(v.n, 10)
    ELSE CharCodes("null")

\* the names of Object.keys(row).sort(), smallest first
RECURSIVE SortedKeys(_)
SortedKeys(keys) ==
    IF keys = {} THEN <<>>
    ELSE LET first == CHOOSE a \in keys :
                         \A b \in keys \ {a} :
                            \E p \in 1..Len(CharCodes(a)) :
                               /\ \A q \in 1..(p - 1) :
                                     q <= Len(CharCodes(b)) /\ CharCodes(a)[q] = CharCodes(b)[q]
                               /\ p <= Len(CharCodes(b)) /\ CharCodes(a)[p] < CharCodes(b)[p]
         IN  <<first>> \o SortedKeys(keys \ {first})

RECURSIVE JsonMembers(_, _, _)
JsonMembers(row, keys, k) ==
    IF k > Len(keys) THEN <<>>
    ELSE (IF k > 1 THEN <<44>> ELSE <<>>)
         \o <<34>> \o CharCodes(keys[k]) \o <<34, 58>> \o CellText(row[keys[k]])
         \o JsonMembers(row, keys, k + 1)

\* JSON.stringify(row, Object.keys(row).sort())
JsonStringify(row) == <<123>> \o JsonMembers(row, SortedKeys(DOMAIN row), 1) \o <<125>>

\* 32-bit integers are kept as two 16-bit halves
Half == 2 ^ 16
Int32(hi, lo) ==
    LET l == lo % Half
    IN  [hi |-> (hi + (lo - l) \div Half) % Half, lo |-> l]

\* hash = ((hash << 5) - hash) + char; hash = hash & hash
HashStep(hash, char) ==
    LET shifted == Int32(hash.hi * 32, hash.lo * 32)
    IN  Int32(shifted.hi - hash.hi, shifted.lo - hash.lo + char)

RECURSIVE HashChars(_, _)
HashChars(str, k) ==
    IF k = 0 THEN [hi |-> 0, lo |-> 0] ELSE HashStep(HashChars(str, k - 1), str[k])

\* Math.abs(hash).toString(36)
HashText(hash) ==
    IF hash.hi = Half \div 2 /\ hash.lo = 0
    THEN <<122, 105, 107, 48, 122, 107>>            \* (2 ** 31).toString(36)
    ELSE IF hash.hi >= Half \div 2
         THEN Digits(-((hash.hi - Half) * Half + hash.lo), 36)
         ELSE Digits(hash.hi * Half + hash.lo, 36)

HashRow(row) ==
    LET str == JsonStringify(row)
    IN  HashText(HashChars(str, Len(str)))

IdFields == <<"id", "transaction_id", "reference", "ref_number">>

\* field.toUpperCase()
UpperCase(field) ==
    CASE field = "id" -> "ID"
      [] field = "transaction_id" -> "TRANSACTION_ID"
      [] field = "reference" -> "REFERENCE"
      [] field = "ref_number" -> "REF_NUMBER"

RECURSIVE RowIdFrom(_, _)
RowIdFrom(row, k) ==
    IF k > Len(IdFields) THEN HashRow(row)
    ELSE LET a == Cell(row, IdFields[k])
             b == Cell(row, UpperCase(IdFields[k]))
             value == IF Truthy(a) THEN a ELSE IF Truthy(b) THEN b ELSE a
         IN  IF value # Undefined THEN CellText(value) ELSE RowIdFrom(row, k + 1)

GetRowId(row) == RowIdFrom(row, 1)


----------------------------------------------------------------------------
(* ReconciliationEngine.reconcile *)

IdCells == {Num(1), Num(2)}
BatchRows == [amount : AmountCells] \cup [id : IdCells, amount : AmountCells]

IdMapping == [sourceColumn |-> "id", targetColumn |-> "id"]
BatchMappingLists == {<<AmountMapping>>, <<IdMapping, AmountMapping>>}

BatchConfigs == [tolerance : 0..MaxTolerance, matchStrategy : MatchStrategies]

InitBatch ==
    /\ engine = "batch"
    /\ sourceFile \in SeqsUpTo(BatchRows, MaxRows)
    /\ targetFile \in SeqsUpTo(BatchRows, MaxRows - Len(sourceFile))
    /\ mappings \in BatchMappingLists
    /\ config \in BatchConfigs
    /\ estimatedRows = Len(sourceFile) + Len(targetFile)
    /\ pc = "start"
    /\ sourceRecords = <<>>
    /\ targetRecords = <<>>
    /\ i = 1
    /\ j = 1
    /\ matchedTargetIndices = {}
    /\ results = <<>>
    /\ PrepIdle

\* mappings.filter(m => m.sourceColumn) and mappings.filter(m => m.targetColumn)
SourceMappings(ms) == SelectSeq(ms, LAMBDA m : m.sourceColumn # "")
TargetMappings(ms) == SelectSeq(ms, LAMBDA m : m.targetColumn # "")

\* the k-th item of a preprocessed list; originalIndex is its position.  The
\* modelled sheets carry no virtual fields and no pipelines, so the rows go to
\* transformData as they are
BatchItems(rows, ms, isSource) ==
    LET transformed == TransformData(rows, ms, isSource)
    IN  [k \in 1..Len(rows) |->
            [originalIndex |-> k - 1,
             originalRow |-> transformed[k].originalRow,
             transformedRow |-> transformed[k].transformedRow]]

BatchUnmatchedSource(sourceItem) ==
    [sourceRow |-> sourceItem.transformedRow,
     targetRow |-> Null,
     sourceRef |-> RefOf(sourceItem),
     targetRef |-> NoRef,
     sourceLine |-> Cell(sourceItem.transformedRow, "__line"),
     targetLine |-> Undefined,
     confidence |-> Undefined,
     discrepancies |-> <<>>,
     amount |-> Undefined,
     status |-> "unmatched-source"]

BatchMatch(sourceItem, match, ms, cfg) ==
    LET discrepancies == BatchCalculateDiscrepancies(
            sourceItem.transformedRow, match.targetItem.transformedRow, ms, cfg)
    IN  [sourceRow |-> sourceItem.transformedRow,
         targetRow |-> match.targetItem.transformedRow,
         sourceRef |-> RefOf(sourceItem),
         targetRef |-> RefOf(match.targetItem),
         sourceLine |-> Cell(sourceItem.transformedRow, "__line"),
         targetLine |-> Cell(match.targetItem.transformedRow, "__line"),
         confidence |-> match.confidence,
         discrepancies |-> discrepancies,
         amount |-> Undefined,
         status |-> IF Len(discrepancies) = 0 THEN "matched" ELSE "discrepancy"]

BatchUnmatchedTarget(targetItem) ==
    [sourceRow |-> Null,
     targetRow |-> targetItem.transformedRow,
     sourceRef |-> NoRef,
     targetRef |-> RefOf(targetItem),
     sourceLine |-> Undefined,
     targetLine |-> Cell(targetItem.transformedRow, "__line"),
     confidence |-> Undefined,
     discrepancies |-> <<>>,
     amount |-> Undefined,
     status |-> "unmatched-target"]

\* the verdicts one source item adds to results
SourceVerdicts(sourceItem, targetItems, ms, cfg) ==
    LET matches == FindMatches(sourceItem, targetItems, ms, cfg)
    IN  IF Len(matches) = 0 THEN <<BatchUnmatchedSource(sourceItem)>>
        ELSE [k \in 1..Len(matches) |-> BatchMatch(sourceItem, matches[k], ms, cfg)]

\* new Set(results.filter(r => r.targetRow).map(r => getRowId(r.targetRow)))
MatchedTargetIds(rs) ==
    {GetRowId(rs[k].targetRow) : k \in {q \in 1..Len(rs) : rs[q].targetRow # Null}}

RECURSIVE UnmatchedTargetVerdicts(_, _, _)
UnmatchedTargetVerdicts(targetItems, k, matchedTargetIds) ==
    IF k > Len(targetItems) THEN <<>>
    ELSE (IF GetRowId(targetItems[k].transformedRow) \notin matchedTargetIds
          THEN <<BatchUnmatchedTarget(targetItems[k])>> ELSE <<>>)
         \o UnmatchedTargetVerdicts(targetItems, k + 1, matchedTargetIds)

\* both sides are preprocessed
BatchTransform ==
    /\ engine = "batch" /\ pc = "start"
    /\ sourceRecords' = BatchItems(sourceFile, SourceMappings(mappings), TRUE)
    /\ targetRecords' = BatchItems(targetFile, TargetMappings(mappings), FALSE)
    /\ pc' = "batchMatching"
    /\ UNCHANGED <<engine, sourceFile, targetFile, mappings, config, estimatedRows,
                   i, j, matchedTargetIndices, results>>
    /\ UNCHANGED prepVars

\* one pass of for (const sourceItem of transformedSource)
BatchMatchSource ==
    /\ pc = "batchMatching" /\ i <= Len(sourceRecords)
    /\ results' = results \o SourceVerdicts(sourceRecords[i], targetRecords, mappings, config)
    /\ i' = i + 1
    /\ UNCHANGED <<engine, sourceFile, targetFile, mappings, config, estimatedRows, pc,
                   sourceRecords, targetRecords, j, matchedTargetIndices>>
    /\ UNCHANGED prepVars

\* the unmatched target items
BatchUnmatchedTargets ==
    /\ pc = "batchMatching" /\ i > Len(sourceRecords)
    /\ results' = results \o UnmatchedTargetVerdicts(targetRecords, 1, MatchedTargetIds(results))
    /\ pc' = "done"
    /\ UNCHANGED <<engine, sourceFile, targetFile, mappings, config, estimatedRows,
                   sourceRecords, targetRecords, i, j, matchedTargetIndices>>
    /\ UNCHANGED prepVars

NextBatch ==
    \/ BatchTransform
    \/ BatchMatchSource
    \/ BatchUnmatchedTargets

SpecBatch == InitBatch /\ [][NextBatch]_vars

----------------------------------------------------------------------------
(* Either engine *)

Init == InitStream \/ InitBatch

Next == NextStream \/ NextBatch

Spec == Init /\ [][Next]_vars


----------------------------------------------------------------------------
(* Preprocessing calls: DataTransformer.transformDataWithVirtualFields and *)
(* TransformationEngine.executePipeline                                    *)

\* a row of the sheet; a cell that is undefined is a column the row lacks
MakeRow(x, line) ==
    [c \in (IF x = Undefined THEN {} ELSE {"X"}) \cup {"Y", "__line"} |->
        CASE c = "X" -> x
          [] c = "Y" -> Num(4)
          [] OTHER -> Num(line)]

\* the sheets whose k-th row has X = cells[k] and __line = k + 1
Sheets(cells) ==
    {[k \in 1..Len(xs) |-> MakeRow(xs[k], k + 1)] :
        xs \in {<<a>> : a \in cells} \cup {<<a, b>> : a, b \in cells}}

ColumnRefs == [name : {"X", "Y"}, isVirtual : {FALSE}]
VirtualRefs == [name : {"A", "B"}, isVirtual : BOOLEAN]
FieldRefs == ColumnRefs \cup VirtualRefs
Operations == {"add", "multiply", "date_diff"}

\* one field, or a field combined with column Y
Formulas ==
    {[fields |-> <<r>>, operations |-> <<>>] : r \in FieldRefs}
    \cup {[fields |-> <<r, [name |-> "Y", isVirtual |-> FALSE]>>, operations |-> <<op>>] :
            r \in FieldRefs, op \in Operations}

\* a field does not refer to itself
VirtualFields ==
    {f \in [name : {"A", "B", "__line"}, formula : Formulas] :
        \A k \in 1..Len(f.formula.fields) : f.formula.fields[k].name # f.name}

\* lists of fields with distinct names
VirtualFieldLists ==
    {<<f>> : f \in VirtualFields}
    \cup {<<p[1], p[2]>> : p \in {q \in VirtualFields \X VirtualFields : q[1].name # q[2].name}}

FillNullParameters ==
    [fillValue : {Num(9)}, treatEmptyAsNull : BOOLEAN, treatZeroAsNull : BOOLEAN]
ExcludeIfNullParameters == [treatEmptyAsNull : BOOLEAN]

\* type and parameters of a step
StepKinds ==
    {[type |-> "negate_number", parameters |-> <<>>]}
    \cup {[type |-> "fill_null", parameters |-> p] : p \in FillNullParameters}
    \cup {[type |-> "exclude_if_null", parameters |-> p] : p \in ExcludeIfNullParameters}

MakeStep(id, kind, order) ==
    [id |-> id, type |-> kind.type, parameters |-> kind.parameters, order |-> order]

StepLists ==
    {<<MakeStep("s1", a, 1)>> : a \in StepKinds}
    \cup {<<MakeStep("s1", a, o[1]), MakeStep("s2", b, o[2])>> :
            a \in StepKinds, b \in StepKinds, o \in {<<1, 2>>, <<2, 1>>, <<1, 1>>}}

Pipelines == [columnId : {"X"}, outputColumn : {"", "Z", "__line"}, steps : StepLists]

PipelineValues == {Null, Str(""), Str("a"), Num(0), Num(3)}

ReconIdle ==
    /\ sourceFile = <<>>
    /\ targetFile = <<>>
    /\ mappings = <<AmountMapping>>
    /\ config = <<>>
    /\ estimatedRows = 0
    /\ sourceRecords = <<>>
    /\ targetRecords = <<>>
    /\ i = 1
    /\ j = 1
    /\ matchedTargetIndices = {}
    /\ results = <<>>

\* a side with virtual fields, or a side with one pipeline
InitTransform ==
    /\ engine = "transform"
    /\ pc = "start"
    /\ \/ /\ inputData \in Sheets({Null, Num(3)})
          /\ virtualFields \in VirtualFieldLists
          /\ transformations = <<>>
       \/ /\ inputData \in Sheets(PipelineValues \cup {Undefined})
          /\ virtualFields = <<>>
          /\ transformations \in {<<p>> : p \in Pipelines}
    /\ inputValue = Undefined
    /\ inputPipeline = <<>>
    /\ output = <<>>
    /\ ReconIdle

InitPipeline ==
    /\ engine = "pipeline"
    /\ pc = "start"
    /\ inputValue \in PipelineValues
    /\ inputPipeline \in {p \in Pipelines : p.outputColumn = ""}
    /\ inputData = <<>>
    /\ virtualFields = <<>>
    /\ transformations = <<>>
    /\ output = <<>>
    /\ ReconIdle

InitPrep == InitTransform \/ InitPipeline

reconVars == <<sourceFile, targetFile, mappings, config, estimatedRows,
               sourceRecords, targetRecords, i, j, matchedTargetIndices, results>>

\* DataTransformer.transformDataWithVirtualFields(data, virtualFields, mappings, true, transformations)
CallTransformData ==
    /\ engine = "transform" /\ pc = "start"
    /\ output' = TransformDataWithVirtualFields(inputData, virtualFields, mappings, TRUE,
                                                transformations)
    /\ pc' = "done"
    /\ UNCHANGED <<engine, inputData, virtualFields, transformations, inputValue,
                   inputPipeline, reconVars>>

\* TransformationEngine.executePipeline(value, pipeline)
CallExecutePipeline ==
    /\ engine = "pipeline" /\ pc = "start"
    /\ output' = ExecutePipeline(inputValue, inputPipeline)
    /\ pc' = "done"
    /\ UNCHANGED <<engine, inputData, virtualFields, transformations, inputValue,
                   inputPipeline, reconVars>>

NextPrep ==
    \/ CallTransformData
    \/ CallExecutePipeline

SpecPrep == InitPrep /\ [][NextPrep]_vars

----------------------------------------------------------------------------
(* Formula mappings: DataTransformer.transformData on its own, and          *)
(* ReconciliationEngine.reconcile with a debit_credit_to_amount mapping     *)

NoColumns == [debit |-> "", credit |-> "", amount |-> ""]

\* Amount -> Dr, Cr
SplitMapping ==
    [sourceColumn |-> "Amount", targetColumn |-> "calculated", matchType |-> "formula",
     formula |-> [type |-> "amount_to_debit_credit",
                  sourceColumns |-> [debit |-> "", credit |-> "", amount |-> "Amount"],
                  targetColumns |-> [debit |-> "Dr", credit |-> "Cr", amount |-> ""]]]

\* Dr, Cr -> targetColumn; sourceColumn is what the mapping row of the user
\* interface holds beside the formula
JoinMapping(sourceColumn, targetColumn) ==
    [sourceColumn |-> sourceColumn, targetColumn |-> targetColumn, matchType |-> "formula",
     formula |-> [type |-> "debit_credit_to_amount",
                  sourceColumns |-> [debit |-> "Dr", credit |-> "Cr", amount |-> ""],
                  targetColumns |-> NoColumns]]

Amounts == (-MaxAmount)..MaxAmount

\* transformData with the one formula, then with the other
InitRoundTrip ==
    /\ engine = "formula"
    /\ pc = "start"
    /\ inputData \in {<<[Amount |-> Num(a)]>> : a \in Amounts}
    /\ mappings = <<SplitMapping, JoinMapping("Dr", "Total")>>
    /\ virtualFields = <<>>
    /\ transformations = <<>>
    /\ inputValue = Undefined
    /\ inputPipeline = <<>>
    /\ output = <<>>
    /\ sourceFile = <<>>
    /\ targetFile = <<>>
    /\ config = <<>>
    /\ estimatedRows = 0
    /\ sourceRecords = <<>>
    /\ targetRecords = <<>>
    /\ i = 1
    /\ j = 1
    /\ matchedTargetIndices = {}
    /\ results = <<>>

\* reconcile on one source row with debit and credit and one target row with
\* the amount
InitFormulaBatch ==
    /\ engine = "batch"
    /\ sourceFile \in {<<[Dr |-> Num(d), Cr |-> Num(c)]>> : d \in 0..MaxAmount, c \in 0..MaxAmount}
    /\ targetFile \in {<<[Amount |-> Num(a)]>> : a \in Amounts}
    /\ mappings \in {<<JoinMapping(sc, "Amount")>> : sc \in {"", "Dr", "Amount"}}
    /\ config \in BatchConfigs
    /\ estimatedRows = Len(sourceFile) + Len(targetFile)
    /\ pc = "start"
    /\ sourceRecords = <<>>
    /\ targetRecords = <<>>
    /\ i = 1
    /\ j = 1
    /\ matchedTargetIndices = {}
    /\ results = <<>>
    /\ PrepIdle

InitFormula == InitRoundTrip \/ InitFormulaBatch

\* DataTransformer.transformData(data, [amount_to_debit_credit mapping])
CallAmountToDebitCredit ==
    /\ engine = "formula" /\ pc = "start"
    /\ output' = TransformData(inputData, <<mappings[1]>>, TRUE)
    /\ pc' = "split"
    /\ UNCHANGED <<engine, inputData, virtualFields, transformations, inputValue,
                   inputPipeline, reconVars>>

\* DataTransformer.transformData on the rows that came back, with the
\* debit_credit_to_amount mapping
CallDebitCreditToAmount ==
    /\ engine = "formula" /\ pc = "split"
    /\ output' = output \o TransformData(<<output[1].transformedRow>>, <<mappings[2]>>, TRUE)
    /\ pc' = "done"
    /\ UNCHANGED <<engine, inputData, virtualFields, transformations, inputValue,
                   inputPipeline, reconVars>>

NextFormula ==
    \/ CallAmountToDebitCredit
    \/ CallDebitCreditToAmount
    \/ BatchTransform
    \/ BatchMatchSource
    \/ BatchUnmatchedTargets

SpecFormula == InitFormula /\ [][NextFormula]_vars

----------------------------------------------------------------------------
(* TransformationEngine.validatePipeline on its own *)

NoParameters == <<>>

\* step types with parameter bags that pass and that fail validateStep
ValidatedStepKinds ==
    {[type |-> "negate_number", parameters |-> NoParameters],
     [type |-> "cast_to_date", parameters |-> NoParameters],
     [type |-> "cast_to_date", parameters |-> [inputFormat |-> Str("auto")]],
     [type |-> "cast_to_date", parameters |-> [inputFormat |-> Str("a")]],
     [type |-> "cast_to_date", parameters |-> [strictParsing |-> Str("a")]],
     [type |-> "convert_timezone",
      parameters |-> [fromTimezone |-> Str("auto"), toTimezone |-> Str("UTC")]],
     [type |-> "convert_timezone",
      parameters |-> [fromTimezone |-> Str("UTC"), toTimezone |-> Str("auto")]],
     [type |-> "convert_timezone", parameters |-> [toTimezone |-> Str("UTC")]]}

ValidatedPipelines ==
    {[columnId |-> "X", outputColumn |-> "",
      steps |-> [k \in 1..Len(kinds) |->
                    [id |-> k, type |-> kinds[k].type,
                     parameters |-> kinds[k].parameters, order |-> k - 1]]] :
        kinds \in SeqsUpTo(ValidatedStepKinds, MaxValidatedSteps)}

InitValidate ==
    /\ engine = "validate"
    /\ pc = "start"
    /\ inputPipeline \in ValidatedPipelines
    /\ inputValue = Undefined
    /\ inputData = <<>>
    /\ virtualFields = <<>>
    /\ transformations = <<>>
    /\ output = <<>>
    /\ ReconIdle

\* TransformationEngine.validatePipeline(pipeline)
CallValidatePipeline ==
    /\ engine = "validate" /\ pc = "start"
    /\ output' = ValidatePipeline(inputPipeline)
    /\ pc' = "done"
    /\ UNCHANGED <<engine, inputData, virtualFields, transformations, inputValue,
                   inputPipeline, reconVars>>

SpecValidate == InitValidate /\ [][CallValidatePipeline]_vars

----------------------------------------------------------------------------
(* ExpressionEvaluator on lists of virtual fields that may share names,     *)
(* refer to themselves or to each other: sortVirtualFieldsByDependencies    *)
(* pass by pass, and the nesting of evaluateFormula under previewFormula    *)
(* and evaluateVirtualFields                                                *)

FieldNames == {"A", "B", "C"}

ColumnX == [name |-> "X", isVirtual |-> FALSE]
VirtualRef(name) == [name |-> name, isVirtual |-> TRUE]

\* one reference, or two references joined by an addition
SortedFormulas ==
    {[fields |-> <<r>>, operations |-> <<>>] :
        r \in {ColumnX} \cup {VirtualRef(n) : n \in FieldNames}}
    \cup {[fields |-> <<ColumnX, VirtualRef(n)>>, operations |-> <<"add">>] : n \in FieldNames}
    \cup {[fields |-> <<VirtualRef(p[1]), VirtualRef(p[2])>>, operations |-> <<"add">>] :
            p \in {<<"A", "B">>, <<"A", "C">>, <<"B", "C">>}}

SortedFields == [name : FieldNames, formula : SortedFormulas]

FieldLists == UNION {[1..n -> SortedFields] : n \in 1..MaxFields}

FieldsIdle ==
    /\ inputData = <<>>
    /\ transformations = <<>>
    /\ inputValue = Undefined
    /\ inputPipeline = <<>>
    /\ output = <<>>
    /\ ReconIdle

InitFields ==
    /\ engine \in {"sort", "preview", "evaluate"}
    /\ pc = "start"
    /\ virtualFields \in FieldLists
    /\ FieldsIdle

\* const sorted = []; const remaining = [...virtualFields]
SortStart ==
    /\ engine = "sort" /\ pc = "start"
    /\ output' = [sorted |-> <<>>, remaining |-> virtualFields]
    /\ pc' = "sorting"
    /\ UNCHANGED <<engine, inputData, virtualFields, transformations, inputValue,
                   inputPipeline, reconVars>>

\* one pass of while (remaining.length > 0), with its break
SortWhile ==
    /\ engine = "sort" /\ pc = "sorting"
    /\ Len(output.remaining) > 0
    /\ LET pass == SortPass(output.sorted, output.remaining, Len(output.remaining))
       IN  IF Len(pass.remaining) = Len(output.remaining)
           THEN /\ output' = [sorted |-> pass.sorted \o pass.remaining,
                              remaining |-> pass.remaining]
                /\ pc' = "done"
           ELSE /\ output' = pass
                /\ pc' = "sorting"
    /\ UNCHANGED <<engine, inputData, virtualFields, transformations, inputValue,
                   inputPipeline, reconVars>>

\* return sorted
SortReturn ==
    /\ engine = "sort" /\ pc = "sorting"
    /\ Len(output.remaining) = 0
    /\ pc' = "done"
    /\ UNCHANGED <<engine, inputData, virtualFields, transformations, inputValue,
                   inputPipeline, output, reconVars>>

\* previewFormula(virtualFields[k].formula, sampleData, virtualFields): the
\* formula of one of the fields is previewed with the whole list as context
CallPreviewFormula ==
    /\ engine = "preview" /\ pc = "start"
    /\ \E k \in 1..Len(virtualFields) :
          output' = [depth |-> Nesting(virtualFields[k].formula, virtualFields, 1)]
    /\ pc' = "done"
    /\ UNCHANGED <<engine, inputData, virtualFields, transformations, inputValue,
                   inputPipeline, reconVars>>

\* evaluateVirtualFields(virtualFields, [row]): the sorted fields are
\* evaluated in turn, each with the fields that succeeded before it as
\* context.  A formula of the modelled lists has at least one field and only
\* additions, so every field succeeds.
CallEvaluateVirtualFields ==
    /\ engine = "evaluate" /\ pc = "start"
    /\ LET sortedFields == SortVirtualFieldsByDependencies(virtualFields)
       IN  output' = [depth |->
                        Max({Nesting(sortedFields[k].formula,
                                     SubSeq(sortedFields, 1, k - 1), 1) :
                                k \in 1..Len(sortedFields)})]
    /\ pc' = "done"
    /\ UNCHANGED <<engine, inputData, virtualFields, transformations, inputValue,
                   inputPipeline, reconVars>>

NextFields ==
    \/ SortStart
    \/ SortWhile
    \/ SortReturn
    \/ CallPreviewFormula
    \/ CallEvaluateVirtualFields

SpecFields == InitFields /\ [][NextFields]_vars

----------------------------------------------------------------------------
(* reconcileInMemory on sheets with negative sort keys, under tolerances of  *)
(* more than 1 (a percentage tolerance of 1 is 100 percent)                  *)

WindowKeyCells == {Num(-2), Num(1), Num(2)}
WindowRows == [date : WindowKeyCells, amount : AmountCells]

WindowConfigs ==
    [sourceSortKey : {"date"}, targetSortKey : {"date"},
     tolerance : 0..(MaxTolerance + 1), toleranceUnit : {"amount", "percentage"},
     matchStrategy : {"exact"}]

InitWindow ==
    /\ engine = "streaming"
    /\ sourceFile \in SeqsUpTo(WindowRows, MaxRows)
    /\ targetFile \in SeqsUpTo(WindowRows, MaxRows - Len(sourceFile))
    /\ mappings = <<AmountMapping>>
    /\ config \in WindowConfigs
    /\ estimatedRows = Len(sourceFile) + Len(targetFile)
    /\ pc = "start"
    /\ sourceRecords = <<>>
    /\ targetRecords = <<>>
    /\ i = 1
    /\ j = 1
    /\ matchedTargetIndices = {}
    /\ results = <<>>
    /\ PrepIdle

NextWindow ==
    \/ ReconcileInMemory
    \/ SourceSweep
    \/ RemainingTargets

SpecWindow == InitWindow /\ [][NextWindow]_vars

----------------------------------------------------------------------------
(* compareSortValues on its own, under percentage tolerance *)

ComparedValues == {Null} \cup {Num(n) : n \in (-2)..2}

\* the percentages entered: none, small, just below and at 100, above 100
Percents == {0, 1, 50, 99, 100, 150}

InitCompare ==
    /\ engine = "compare"
    /\ pc = "start"
    /\ inputData \in [sourceValue : ComparedValues, targetValue : ComparedValues,
                       percent : Percents]
    /\ inputValue = Undefined
    /\ inputPipeline = <<>>
    /\ virtualFields = <<>>
    /\ transformations = <<>>
    /\ output = <<>>
    /\ ReconIdle

CallCompareSortValues ==
    /\ engine = "compare" /\ pc = "start"
    /\ output' = CompareSortValuesPercent(inputData.sourceValue, inputData.targetValue,
                                          inputData.percent)
    /\ pc' = "done"
    /\ UNCHANGED <<engine, inputData, virtualFields, transformations, inputValue,
                   inputPipeline, reconVars>>

SpecCompare == InitCompare /\ [][CallCompareSortValues]_vars

----------------------------------------------------------------------------
(* Progress events of reconcileStreaming in in-memory mode.  The events      *)
(* depend on the number of rows of the two sheets only, so the sheets are     *)
(* given by their row counts; no transformation drops a row.                  *)

\* const chunkSize = 1000
ChunkSize == 1000

\* if (i % 1000 === 0)
ProgressInterval == 1000

\* processed values are kept as exact fractions
Fraction(num, den) == [num |-> num, den |-> den]

FractionLeq(a, b) == a.num * b.den <= b.num * a.den

\* Math.min((part / whole) * 100, cap)
CappedPercentage(part, whole, cap) ==
    IF part * 100 <= cap * whole THEN Fraction(part * 100, whole) ELSE Fraction(cap, 1)

ProgressEvent(processed, stage) == [processed |-> processed, total |-> 100, stage |-> stage]

\* data rows of a sheet: none, one, and around each multiple of the chunk size
FileRowCounts ==
    {0, 1} \cup {k * ChunkSize + d : k \in 1..MaxChunks, d \in {-1, 0, 1}}

InitProgress ==
    /\ engine = "progress"
    /\ pc = "start"
    /\ inputData \in [sourceRows : FileRowCounts, targetRows : FileRowCounts]
    /\ inputData.sourceRows + inputData.targetRows <= STREAM_THRESHOLD
    /\ inputValue = Undefined
    /\ inputPipeline = <<>>
    /\ virtualFields = <<>>
    /\ transformations = <<>>
    /\ output = [events |-> <<>>, startRow |-> 1]
    /\ ReconIdle

progressUnchanged ==
    <<engine, inputData, virtualFields, transformations, inputValue, inputPipeline,
      sourceFile, targetFile, mappings, config, estimatedRows, sourceRecords,
      targetRecords, j, matchedTargetIndices, results>>

\* reconcileInMemory: onProgress({processed: 0, ..., stage: 'Processing source file'})
ProgressStart ==
    /\ engine = "progress" /\ pc = "start"
    /\ output' = [events |-> Append(output.events,
                                    ProgressEvent(Fraction(0, 1), "Processing source file")),
                  startRow |-> 1]
    /\ pc' = "source"
    /\ UNCHANGED <<i, progressUnchanged>>

\* extractAndSortData: one pass of the loop over the chunks; range.s.r is the
\* header row 0 and range.e.r the number of data rows
ExtractChunk ==
    /\ engine = "progress" /\ pc \in {"source", "target"}
    /\ LET totalRows == IF pc = "source" THEN inputData.sourceRows ELSE inputData.targetRows
           stage == IF pc = "source" THEN "Processing source file"
                                     ELSE "Processing target file"
           endRow == IF output.startRow + ChunkSize - 1 < totalRows
                     THEN output.startRow + ChunkSize - 1 ELSE totalRows
       IN  /\ output.startRow <= totalRows
           /\ output' = [events |-> Append(output.events,
                                           ProgressEvent(CappedPercentage(endRow, totalRows, 100),
                                                         stage)),
                         startRow |-> output.startRow + ChunkSize]
    /\ UNCHANGED <<pc, i, progressUnchanged>>

\* reconcileInMemory: onProgress({processed: 25, ..., stage: 'Processing target file'})
SourceExtracted ==
    /\ engine = "progress" /\ pc = "source"
    /\ output.startRow > inputData.sourceRows
    /\ output' = [events |-> Append(output.events,
                                    ProgressEvent(Fraction(25, 1), "Processing target file")),
                  startRow |-> 1]
    /\ pc' = "target"
    /\ UNCHANGED <<i, progressUnchanged>>

\* reconcileInMemory: onProgress({processed: 50, ..., stage: 'Matching records'})
TargetExtracted ==
    /\ engine = "progress" /\ pc = "target"
    /\ output.startRow > inputData.targetRows
    /\ output' = [output EXCEPT !.events =
                     Append(@, ProgressEvent(Fraction(50, 1), "Matching records"))]
    /\ i' = 1
    /\ pc' = "matching"
    /\ UNCHANGED progressUnchanged

\* twoPointerReconciliation: one pass of the loop over the source records
\* (i here is the source's i + 1); every source record becomes one record
SourceProgress ==
    /\ engine = "progress" /\ pc = "matching"
    /\ i <= inputData.sourceRows
    /\ output' = IF (i - 1) % ProgressInterval = 0
                 THEN [output EXCEPT !.events =
                          Append(@, ProgressEvent(CappedPercentage(i - 1, inputData.sourceRows, 95),
                                                  "Matching records"))]
                 ELSE output
    /\ i' = i + 1
    /\ UNCHANGED <<pc, progressUnchanged>>

\* reconcileInMemory: onProgress({processed: 100, total: 100, stage: 'Complete'})
ProgressComplete ==
    /\ engine = "progress" /\ pc = "matching"
    /\ i > inputData.sourceRows
    /\ output' = [output EXCEPT !.events =
                     Append(@, ProgressEvent(Fraction(100, 1), "Complete"))]
    /\ pc' = "done"
    /\ UNCHANGED <<i, progressUnchanged>>

NextProgress ==
    \/ ProgressStart
    \/ ExtractChunk
    \/ SourceExtracted
    \/ TargetExtracted
    \/ SourceProgress
    \/ ProgressComplete

SpecProgress == InitProgress /\ [][NextProgress]_vars

----------------------------------------------------------------------------
(* TransformationBuilder: the steps of the pipeline being edited.            *)
(* inputPipeline is the component's pipeline (name and steps), inputValue     *)
(* its draggedStepId.  A step is modelled by its id, type and order; name,    *)
(* description and parameters of a step have no part in the order.            *)

\* Date.now() at a call
Clock == 1..MaxClock

\* Date.now().toString()
StepId(now) == Str(<<now>>)

\* Date.now().toString() + index
PresetStepId(now, index) == Str(<<now, index>>)

BUILT_IN_PRESETS ==
    << [name |-> "Date to UTC",
        steps |-> <<"clean_string", "cast_to_date", "convert_timezone">>],
       [name |-> "Amount to USD",
        steps |-> <<"clean_string", "cast_to_number", "round_number">>],
       [name |-> "Description Cleanup",
        steps |-> <<"clean_string", "lowercase", "remove_special_chars">>],
       [name |-> "Expense/Income Categorizer",
        steps |-> <<"cast_to_number", "conditional">>],
       [name |-> "Data Quality Cleanup",
        steps |-> <<"fill_null", "flag_missing">>] >>

\* the types offered by the Add Step buttons that the model presses
AddedTypes == {"uppercase"}

\* steps.map((step, index) => ({...step, order: index})) without the order
WithOrderKept(steps) == steps

\* steps.map((step, index) => ({...step, order: index}))
WithOrderFromIndex(steps) ==
    [k \in 1..Len(steps) |-> [steps[k] EXCEPT !.order = k - 1]]

\* steps.findIndex(s => s.id === stepId), counted from 1; 0 for -1
FindStepById(steps, stepId) ==
    IF \E k \in 1..Len(steps) : steps[k].id = stepId
    THEN CHOOSE k \in 1..Len(steps) :
            /\ steps[k].id = stepId
            /\ \A m \in 1..(k - 1) : steps[m].id # stepId
    ELSE 0

\* newSteps.splice(targetIndex, 0, draggedStep), positions counted from 1
InsertAt(seq, k, e) == SubSeq(seq, 1, k - 1) \o <<e>> \o SubSeq(seq, k, Len(seq))

InitBuilder ==
    /\ engine = "builder"
    /\ pc = "open"
    /\ inputPipeline = [name |-> "", steps |-> <<>>]
    /\ inputValue = Null
    /\ inputData = <<>>
    /\ virtualFields = <<>>
    /\ transformations = <<>>
    /\ output = <<>>
    /\ ReconIdle

builderUnchanged ==
    <<engine, pc, inputData, virtualFields, transformations, output, reconVars>>

\* addStep(type)
addStep ==
    /\ engine = "builder"
    /\ Len(inputPipeline.steps) < MaxPipelineSteps
    /\ \E type \in AddedTypes, now \in Clock :
          LET newStep == [id |-> StepId(now), type |-> type,
                          order |-> Len(inputPipeline.steps)]
          IN  inputPipeline' = [inputPipeline EXCEPT !.steps = Append(@, newStep)]
    /\ UNCHANGED <<inputValue, builderUnchanged>>

\* removeStep(stepId), from the card of a step
removeStep ==
    /\ engine = "builder"
    /\ \E c \in 1..Len(inputPipeline.steps) :
          LET stepId == inputPipeline.steps[c].id
          IN  inputPipeline' =
                 [inputPipeline EXCEPT !.steps =
                     WithOrderFromIndex(SelectSeq(@, LAMBDA s : s.id # stepId))]
    /\ UNCHANGED <<inputValue, builderUnchanged>>

\* handleDragStart(e, stepId), from the card of a step
handleDragStart ==
    /\ engine = "builder"
    /\ \E c \in 1..Len(inputPipeline.steps) : inputValue' = inputPipeline.steps[c].id
    /\ UNCHANGED <<inputPipeline, builderUnchanged>>

\* handleDrop(e, targetStepId), on the card of a step
handleDrop ==
    /\ engine = "builder"
    /\ \E c \in 1..Len(inputPipeline.steps) :
          LET targetStepId == inputPipeline.steps[c].id
              draggedStepId == inputValue
              draggedIndex == FindStepById(inputPipeline.steps, draggedStepId)
              targetIndex == FindStepById(inputPipeline.steps, targetStepId)
          IN  IF draggedStepId = Null \/ draggedStepId = targetStepId
                 \/ draggedIndex = 0 \/ targetIndex = 0
              THEN UNCHANGED inputPipeline
              ELSE inputPipeline' =
                      [inputPipeline EXCEPT !.steps =
                          WithOrderFromIndex(
                              InsertAt(RemoveAt(@, draggedIndex), targetIndex,
                                       inputPipeline.steps[draggedIndex]))]
    /\ inputValue' = Null
    /\ UNCHANGED builderUnchanged

\* loadPreset(preset)
loadPreset ==
    /\ engine = "builder"
    /\ \E p \in 1..Len(BUILT_IN_PRESETS), now \in Clock :
          LET preset == BUILT_IN_PRESETS[p]
              presetSteps == [k \in 1..Len(preset.steps) |->
                                 [id |-> PresetStepId(now, k - 1),
                                  type |-> preset.steps[k],
                                  order |-> k - 1]]
          IN  /\ Len(presetSteps) <= MaxPipelineSteps
              /\ inputPipeline' = [name |-> preset.name, steps |-> presetSteps]
    /\ UNCHANGED <<inputValue, builderUnchanged>>

NextBuilder ==
    \/ addStep
    \/ removeStep
    \/ handleDragStart
    \/ handleDrop
    \/ loadPreset

SpecBuilder == InitBuilder /\ [][NextBuilder]_vars

----------------------------------------------------------------------------
(* Properties *)

InMemoryMode == engine = "streaming" /\ ~(estimatedRows > STREAM_THRESHOLD)
TrueStreamingMode == engine = "streaming" /\ estimatedRows > STREAM_THRESHOLD
InMemoryDone == InMemoryMode /\ pc = "done"
TrueStreamingDone == TrueStreamingMode /\ pc = "done"

Paired(v) == v.status \in {"matched", "discrepancy"}

\* the positions in results of the verdicts that hold the target row ref
VerdictsOfTarget(ref) == {k \in 1..Len(results) : results[k].targetRef = ref}
VerdictsOfSource(ref) == {k \in 1..Len(results) : results[k].sourceRef = ref}

\* C1: in the sliding-window scan every target record is in at most one
\* verdict while the scan runs and in exactly one verdict when it has ended:
\* one matched/discrepancy verdict or one unmatched-target verdict.
C1_EachTargetInOneVerdict ==
    InMemoryMode /\ pc \in {"matching", "done"} =>
        \A t \in 1..Len(targetRecords) :
            LET held == VerdictsOfTarget(RefOf(targetRecords[t]))
            IN  /\ Cardinality(held) <= 1
                /\ pc = "done" => Cardinality(held) = 1
                /\ \A k \in held : Paired(results[k]) \/ results[k].status = "unmatched-target"

\* a scan under a tolerance window that ended with one target paired and
\* another one left unmatched
C1_Witness ==
    /\ InMemoryDone
    /\ config.tolerance > 0 /\ config.toleranceUnit # "exact"
    /\ \E a, b \in 1..Len(results) :
          /\ Paired(results[a])
          /\ results[b].status = "unmatched-target"

\* C6: twoPointerReconciliation emits one verdict per source record, in the
\* order of the sorted source list, which keeps the file order of records
\* with equal keys; the unmatched-target verdicts all follow the verdict of
\* the last source record.
C6_SourceOrderThenTargets ==
    InMemoryMode /\ pc \in {"matching", "done"} =>
        LET n == Len(sourceRecords)
        IN  /\ Len(sourceRecords) = Len(sourceFile)
            /\ \A a, b \in 1..n :
                  a < b => /\ SortComparator(sourceRecords[a], sourceRecords[b]) <= 0
                           /\ SortComparator(sourceRecords[a], sourceRecords[b]) = 0
                                 => sourceRecords[a].originalIndex < sourceRecords[b].originalIndex
            /\ pc = "matching" => Len(results) = i - 1
            /\ pc = "done" => Len(results) >= n
            /\ \A k \in 1..Len(results) :
                  IF k <= n
                  THEN /\ results[k].sourceRef = RefOf(sourceRecords[k])
                       /\ results[k].status # "unmatched-target"
                  ELSE /\ results[k].status = "unmatched-target"
                       /\ results[k].sourceRef = NoRef

\* two source records with the same key that the file holds in the order
\* they are emitted in, a source record the sort has moved, and an
\* unmatched-target verdict behind the source verdicts
C6_Witness ==
    /\ InMemoryDone
    /\ Len(sourceRecords) >= 2
    /\ \E a \in 1..(Len(sourceRecords) - 1) :
          /\ SortComparator(sourceRecords[a], sourceRecords[a + 1]) = 0
          /\ sourceRecords[a].transformedRow # sourceRecords[a + 1].transformedRow
    /\ \E k \in 1..Len(results) : results[k].status = "unmatched-target"

\* C5: in every verdict of either engine, unmatched-source has no target
\* row, unmatched-target has no source row, matched and discrepancy have both.
C5_StatusAndRows ==
    \A k \in 1..Len(results) :
        LET v == results[k]
        IN  /\ v.status \in {"matched", "discrepancy", "unmatched-source", "unmatched-target"}
            /\ v.status = "unmatched-source" => v.targetRow = Null /\ v.targetRef = NoRef
            /\ v.status = "unmatched-target" => v.sourceRow = Null /\ v.sourceRef = NoRef
            /\ Paired(v) => /\ v.sourceRow # Null /\ v.targetRow # Null
                            /\ v.sourceRef # NoRef /\ v.targetRef # NoRef

\* a finished run of the batch engine that emitted a discrepancy verdict
\* and an unmatched-target verdict
C5_Witness ==
    /\ engine = "batch" /\ pc = "done"
    /\ \E a, b \in 1..Len(results) :
          /\ results[a].status = "discrepancy"
          /\ results[b].status = "unmatched-target"


BatchDone == engine = "batch" /\ pc = "done"

\* C2: in reconcile every target row is in at most one matched or
\* discrepancy verdict.
C2_TargetPairedAtMostOnce ==
    engine = "batch" =>
        \A t \in 1..Len(targetRecords) :
            Cardinality({k \in VerdictsOfTarget(RefOf(targetRecords[t])) :
                            Paired(results[k])}) <= 1

\* C3: when reconcile has ended, the verdicts that hold a source row are as
\* many as the source rows: one verdict per source row, with at most one
\* target row.
C3_OneVerdictPerSource ==
    BatchDone =>
        /\ Cardinality({k \in 1..Len(results) : results[k].sourceRow # Null})
              = Len(sourceFile)
        /\ \A q \in 1..Len(sourceRecords) :
              Cardinality(VerdictsOfSource(RefOf(sourceRecords[q]))) = 1

\* C4: when reconcile has ended, every target row that is in no matched or
\* discrepancy verdict is in exactly one unmatched-target verdict.
C4_UnpairedTargetEmittedOnce ==
    BatchDone =>
        \A t \in 1..Len(targetRecords) :
            LET held == VerdictsOfTarget(RefOf(targetRecords[t]))
            IN  (\A k \in held : ~Paired(results[k])) =>
                    Cardinality({k \in held : results[k].status = "unmatched-target"}) = 1


\* the record of the row a verdict holds
RefIndex(ref) == CHOOSE x \in ref : TRUE
SourceRecordOf(v) == LineRecord(sourceFile, RefIndex(v.sourceRef) + 1, config.sourceSortKey)
TargetRecordOf(v) == LineRecord(targetFile, RefIndex(v.targetRef) + 1, config.targetSortKey)

\* the rows of a file are in the order of the sort comparator
FileSorted(file, sortKey) ==
    \A a, b \in 1..Len(file) :
        a < b => SortComparator(LineRecord(file, a, sortKey), LineRecord(file, b, sortKey)) <= 0

\* C7 as stated: in reconcileWithTrueStreaming over sorted files no
\* unmatched-target verdict precedes a verdict that carries a source row.
C7_TargetOnlyAfterAllSources ==
    /\ TrueStreamingMode
    /\ FileSorted(sourceFile, config.sourceSortKey)
    /\ FileSorted(targetFile, config.targetSortKey)
    => \A a, b \in 1..Len(results) :
          a < b => ~(results[a].status = "unmatched-target" /\ results[b].sourceRow # Null)

\* C7 amended: an unmatched-target verdict that precedes a source-carrying
\* verdict holds a target whose sort key compares below the source record of
\* the next source-carrying verdict (compareSortValues > 0): the walk emits it
\* in the main loop, when it advances the target side.
C7_EarlyTargetsAreBelowNextSource ==
    TrueStreamingMode =>
        \A a, b \in 1..Len(results) :
            /\ a < b
            /\ results[a].status = "unmatched-target"
            /\ results[b].sourceRow # Null
            /\ \A c \in (a + 1)..(b - 1) : results[c].sourceRow = Null
            => Compare(SourceRecordOf(results[b]), TargetRecordOf(results[a]), config) > 0

\* a finished walk over sorted files that emitted an unmatched-target verdict
\* before a source-carrying verdict
C7_Witness ==
    /\ TrueStreamingDone
    /\ FileSorted(sourceFile, config.sourceSortKey)
    /\ FileSorted(targetFile, config.targetSortKey)
    /\ \E a, b \in 1..Len(results) :
          a < b /\ results[a].status = "unmatched-target" /\ results[b].sourceRow # Null

\* the rows of a file have non-null, strictly increasing sort keys
TotalSorted(file, sortKey) ==
    /\ \A a \in 1..Len(file) : LineRecord(file, a, sortKey).sortValue # Null
    /\ \A a, b \in 1..Len(file) :
          a < b => SortComparator(LineRecord(file, a, sortKey), LineRecord(file, b, sortKey)) < 0

\* pairs and statuses of a list of verdicts
VerdictSet(rs) ==
    {[sourceRef |-> rs[k].sourceRef, targetRef |-> rs[k].targetRef, status |-> rs[k].status] :
        k \in 1..Len(rs)}

\* C8: on the same rows, sorted by a total sort key, under matchStrategy =
\* exact and toleranceUnit = exact, the streaming walk ends with the same
\* verdicts (pairs, statuses, unmatched rows) as twoPointerReconciliation.
C8_WalkEqualsInMemoryScan ==
    /\ TrueStreamingDone
    /\ config.matchStrategy = "exact" /\ config.toleranceUnit = "exact"
    /\ TotalSorted(sourceFile, config.sourceSortKey)
    /\ TotalSorted(targetFile, config.targetSortKey)
    => LET scan == TwoPointerReconciliation(
                       ExtractAndSortData(sourceFile, config.sourceSortKey),
                       ExtractAndSortData(targetFile, config.targetSortKey),
                       mappings, config)
       IN  /\ Len(results) = Len(scan)
           /\ VerdictSet(results) = VerdictSet(scan)

\* every mapping's values satisfy valuesMatch of the engine that ran
AllValuesMatch(v) ==
    \A k \in 1..Len(mappings) :
        ~MappingSkipped(mappings[k]) =>
            LET sv == Cell(v.sourceRow, mappings[k].sourceColumn)
                tv == Cell(v.targetRow, mappings[k].targetColumn)
            IN  IF engine = "batch" THEN BatchValuesMatch(sv, tv, config)
                ELSE StreamValuesMatch(sv, tv, config)

\* C9: a paired verdict is matched exactly when every mapping's values
\* satisfy valuesMatch under the configured tolerance (then confidence is 1
\* and discrepancies is empty), and is discrepancy exactly when some
\* mapping fails valuesMatch.
C9_MatchedIffAllValuesMatch ==
    \A k \in 1..Len(results) :
        Paired(results[k]) =>
            /\ results[k].status = "matched" <=> AllValuesMatch(results[k])
            /\ results[k].status = "discrepancy" <=> ~AllValuesMatch(results[k])
            /\ results[k].status = "matched" =>
                  /\ SameFraction(results[k].confidence, One)
                  /\ results[k].discrepancies = <<>>

\* the sort keys of the rows a paired verdict holds
SourceKeyOf(v) == ExtractSortValue(v.sourceRow, config.sourceSortKey)
TargetKeyOf(v) == ExtractSortValue(v.targetRow, config.targetSortKey)

\* in a sorted list every null-key record precedes every non-null-key record
NullKeysFirst(records) ==
    \A a, b \in 1..Len(records) :
        records[a].sortValue = Null /\ records[b].sortValue # Null => a < b

\* C10 as stated: the streaming engine pairs no records of which a sort key
\* is null, unless both keys are null and toleranceUnit = exact; the sorted
\* lists hold the null-key records first.
C10_NullKeysPairedOnlyUnderExact ==
    engine = "streaming" =>
        /\ \A k \in 1..Len(results) :
              Paired(results[k])
              /\ (SourceKeyOf(results[k]) = Null \/ TargetKeyOf(results[k]) = Null)
              => /\ SourceKeyOf(results[k]) = Null /\ TargetKeyOf(results[k]) = Null
                 /\ config.toleranceUnit = "exact"
        /\ NullKeysFirst(sourceRecords) /\ NullKeysFirst(targetRecords)

\* C10 amended: the streaming engine pairs no record that has a null sort
\* key with a record that has a non-null one; two null keys compare equal
\* under every toleranceUnit, so null-key records are paired with each
\* other; the sorted lists hold the null-key records first.
C10_NullKeysPairedOnlyTogether ==
    engine = "streaming" =>
        /\ \A k \in 1..Len(results) :
              Paired(results[k]) =>
                  (SourceKeyOf(results[k]) = Null <=> TargetKeyOf(results[k]) = Null)
        /\ NullKeysFirst(sourceRecords) /\ NullKeysFirst(targetRecords)

\* a scan under a time tolerance that paired two null-key records, over a
\* sorted source list that holds a null and a non-null key
C10_Witness ==
    /\ InMemoryDone
    /\ config.toleranceUnit = "minutes" /\ config.tolerance > 0
    /\ \E k \in 1..Len(results) :
          /\ Paired(results[k])
          /\ SourceKeyOf(results[k]) = Null /\ TargetKeyOf(results[k]) = Null
    /\ \E a, b \in 1..Len(sourceRecords) :
          sourceRecords[a].sortValue = Null /\ sourceRecords[b].sortValue # Null


\* the bijections of the positions of a file
PositionPermutations(n) ==
    {p \in [1..n -> 1..n] : \A a, b \in 1..n : p[a] = p[b] => a = b}

\* the files that hold the rows of file with rows of equal sort key
\* exchanged among themselves
PermutedWithinKeys(file, sortKey) ==
    {[k \in 1..Len(file) |-> file[p[k]]] : p \in
        {q \in PositionPermutations(Len(file)) :
            \A k \in 1..Len(file) :
                ExtractSortValue(file[q[k]], sortKey) = ExtractSortValue(file[k], sortKey)}}

\* the rows and the status of each verdict of a list
VerdictRows(rs) ==
    {[sourceRow |-> rs[k].sourceRow, targetRow |-> rs[k].targetRow, status |-> rs[k].status] :
        k \in 1..Len(rs)}

\* C11: with matchStrategy = exact and toleranceUnit = exact the in-memory
\* scan gives the same set of verdicts (rows paired, statuses) for every
\* order of the source rows and of the target rows within equal sort keys.
C11_OrderWithinKeysIrrelevant ==
    /\ InMemoryDone
    /\ config.matchStrategy = "exact" /\ config.toleranceUnit = "exact"
    => \A permutedSource \in PermutedWithinKeys(sourceFile, config.sourceSortKey) :
       \A permutedTarget \in PermutedWithinKeys(targetFile, config.targetSortKey) :
          VerdictRows(TwoPointerReconciliation(
                          ExtractAndSortData(permutedSource, config.sourceSortKey),
                          ExtractAndSortData(permutedTarget, config.targetSortKey),
                          mappings, config))
          = VerdictRows(results)

\* C12 as stated: reconcileStreaming runs the strict walk exactly when
\* matchStrategy = exact and the sliding-window scan otherwise.
C12_WalkIffExactStrategy ==
    engine = "streaming" =>
        /\ pc = "walk" => config.matchStrategy = "exact"
        /\ pc = "matching" => config.matchStrategy # "exact"

\* C12 amended: reconcileStreaming runs the strict walk exactly when the
\* estimated row count of both files exceeds STREAM_THRESHOLD, and the
\* sliding-window scan otherwise, whatever the matchStrategy.
C12_WalkIffAboveThreshold ==
    engine = "streaming" =>
        /\ pc = "walk" => estimatedRows > STREAM_THRESHOLD
        /\ pc = "matching" => ~(estimatedRows > STREAM_THRESHOLD)

\* the walk running under a strategy other than exact
C12_Witness ==
    /\ engine = "streaming" /\ pc = "walk"
    /\ config.matchStrategy = "fuzzy"
    /\ estimatedRows > STREAM_THRESHOLD
    /\ Len(results) > 0


----------------------------------------------------------------------------
(* Properties of the preprocessing calls *)

PipelineDone == engine = "pipeline" /\ pc = "done"
TransformDone == engine = "transform" /\ pc = "done"

\* the step of a pipeline that has the given id
StepById(p, id) == CHOOSE step \in {p.steps[k] : k \in 1..Len(p.steps)} : step.id = id

\* the transformation of a step throws on the value
StepFails(input, step) == ApplyTransformation(input, step.type, step.parameters).threw

\* C13: executePipeline never throws; exactly one stepResult is recorded per
\* step; the first step receives the pipeline's value and every later step
\* the value of the step before it, or, when that step failed, the value
\* that step was given; success is true iff every step succeeded.
C13_PipelineRecordsEveryStep ==
    PipelineDone =>
        /\ ~output.threw
        /\ Len(output.stepResults) = Len(inputPipeline.steps)
        /\ \A k \in 1..Len(inputPipeline.steps) :
              Cardinality({m \in 1..Len(output.stepResults) :
                              output.stepResults[m].stepId = inputPipeline.steps[k].id}) = 1
        /\ \A k \in 1..Len(output.stepResults) :
              LET stepResult == output.stepResults[k]
                  step == StepById(inputPipeline, stepResult.stepId)
              IN  /\ stepResult.input =
                        IF k = 1 THEN inputValue
                        ELSE IF output.stepResults[k - 1].success
                             THEN output.stepResults[k - 1].value
                             ELSE output.stepResults[k - 1].input
                  /\ stepResult.success <=> ~StepFails(stepResult.input, step)
        /\ output.success <=> \A k \in 1..Len(output.stepResults) : output.stepResults[k].success

\* a pipeline whose first step failed and whose second step transformed the
\* value the failed step was given
C13_Witness ==
    /\ PipelineDone
    /\ Len(output.stepResults) = 2
    /\ ~output.stepResults[1].success
    /\ output.stepResults[2].success
    /\ output.stepResults[2].input = inputValue
    /\ output.stepResults[2].value # inputValue
    /\ ~output.success

\* C14: after transformDataWithVirtualFields, for every pipeline whose
\* columnId the row has, the column outputColumn (or columnId) of the row
\* holds the pipeline's final transformed value, also when a step failed.
C14_PipelineOutputWritten ==
    TransformDone =>
        \A k \in 1..Len(inputData) : \A m \in 1..Len(transformations) :
            Cell(inputData[k], transformations[m].columnId) # Undefined =>
                Cell(output[k].transformedRow, TargetField(transformations[m]))
                = ExecutePipeline(inputData[k][transformations[m].columnId],
                                  transformations[m]).transformedValue

\* an exclude_if_null step of a pipeline of the row is given a missing value
RowExcluded(row) ==
    \E m \in 1..Len(transformations) :
        /\ Cell(row, transformations[m].columnId) # Undefined
        /\ LET run == ExecutePipeline(row[transformations[m].columnId], transformations[m])
           IN  \E k \in 1..Len(run.stepResults) :
                  LET step == StepById(transformations[m], run.stepResults[k].stepId)
                      input == run.stepResults[k].input
                  IN  /\ step.type = "exclude_if_null"
                      /\ \/ input = Null
                         \/ input = Str("") /\ step.parameters.treatEmptyAsNull

\* C15: the preprocessed data holds exactly the rows for which no
\* exclude_if_null step met a missing value.
C15_ExcludedRowsRemoved ==
    TransformDone =>
        Len(output) = Cardinality({k \in 1..Len(inputData) : ~RowExcluded(inputData[k])})

\* C16: a fill_null step returns fillValue on null and on an empty string
\* under treatEmptyAsNull, and returns every other non-missing value
\* unchanged.
C16_FillNullFillsMissing ==
    PipelineDone =>
        \A k \in 1..Len(output.stepResults) :
            LET stepResult == output.stepResults[k]
                step == StepById(inputPipeline, stepResult.stepId)
                input == stepResult.input
                empty == input = Str("") /\ step.parameters.treatEmptyAsNull
                zero == input = Num(0) /\ step.parameters.treatZeroAsNull
            IN  step.type = "fill_null" =>
                    /\ stepResult.success
                    /\ input = Null => stepResult.value = step.parameters.fillValue
                    /\ empty => stepResult.value = step.parameters.fillValue
                    /\ (input # Null /\ ~empty /\ ~zero) => stepResult.value = input

\* C17: every enriched row has the __line of the row it was made from.
C17_LinePreserved ==
    TransformDone =>
        /\ Len(output) = Len(inputData)
        /\ \A k \in 1..Len(inputData) :
              Cell(output[k].transformedRow, "__line") = Cell(inputData[k], "__line")

\* field f refers to field g as a virtual field
DependsOn(f, g) ==
    \E k \in 1..Len(f.formula.fields) :
        f.formula.fields[k].isVirtual /\ f.formula.fields[k].name = g.name

\* the fields that lie on a dependency cycle (lists hold at most two fields)
OnCycle(fields) ==
    {k \in 1..Len(fields) :
        \E m \in 1..Len(fields) : DependsOn(fields[k], fields[m]) /\ DependsOn(fields[m], fields[k])}

\* C18: a virtual field on a dependency cycle has a null column in every
\* enriched row and an error note that names it, and every row is kept.
C18_CycleFieldsAreErrors ==
    TransformDone =>
        /\ Len(output) = Len(inputData)
        /\ \A f \in OnCycle(virtualFields) : \A k \in 1..Len(inputData) :
              /\ Cell(output[k].transformedRow, virtualFields[f].name) = Null
              /\ \E e \in 1..Len(EvaluateVirtualFields(virtualFields, inputData).errors) :
                    LET note == EvaluateVirtualFields(virtualFields, inputData).errors[e]
                    IN  note.row = k /\ note.field = virtualFields[f].name

\* evaluateVirtualFields recorded an error for the field on the row
FieldFailed(fields, rows, name, k) ==
    \E e \in 1..Len(EvaluateVirtualFields(fields, rows).errors) :
        LET note == EvaluateVirtualFields(fields, rows).errors[e]
        IN  note.row = k /\ note.field = name

\* C19: in the enriched rows a field that failed on a row is a null column
\* on that row, and every value computed for another field or another row
\* is the column of that name.
C19_FailuresStayLocal ==
    TransformDone =>
        \A f \in 1..Len(virtualFields) : \A k \in 1..Len(inputData) :
            Cell(output[k].transformedRow, virtualFields[f].name)
            = IF FieldFailed(virtualFields, inputData, virtualFields[f].name, k)
              THEN Null
              ELSE Cell(EvaluateVirtualFields(virtualFields, inputData).data[k],
                        virtualFields[f].name)

\* field f refers to the name of field g
RefersTo(f, g) ==
    \E k \in 1..Len(f.formula.fields) : f.formula.fields[k].name = g.name

\* no two fields refer to each other (lists hold at most two fields)
AcyclicDependencies(fields) ==
    \A k, m \in 1..Len(fields) : ~(RefersTo(fields[k], fields[m]) /\ RefersTo(fields[m], fields[k]))

\* C20: for fields with acyclic dependencies evaluateVirtualFields gives the
\* same enriched rows for every declaration order of the fields.
C20_DeclarationOrderIrrelevant ==
    TransformDone /\ AcyclicDependencies(virtualFields) =>
        \A p \in PositionPermutations(Len(virtualFields)) :
            EvaluateVirtualFields([k \in 1..Len(virtualFields) |-> virtualFields[p[k]]],
                                  inputData).data
            = EvaluateVirtualFields(virtualFields, inputData).data



----------------------------------------------------------------------------
(* Properties of the formula mappings *)

RoundTripDone == engine = "formula" /\ pc = "done"
FormulaBatchDone == engine = "batch" /\ pc = "done" /\ HasFormula(mappings[1])

\* C21: for every integer amount a, amountToDebitCredit gives a debit and a
\* credit that are not negative and not both non-zero (credit = a for a > 0,
\* debit = |a| for a < 0, both 0 for a = 0), and debitCreditToAmount on that
\* debit and credit gives a back.
C21_SplitThenJoinIsIdentity ==
    RoundTripDone =>
        LET a == inputData[1].Amount.n
            split == output[1].transformedRow
            joined == output[2].transformedRow
        IN  /\ IsNumber(split.Dr) /\ IsNumber(split.Cr)
            /\ split.Dr.n >= 0 /\ split.Cr.n >= 0
            /\ split.Dr.n = 0 \/ split.Cr.n = 0
            /\ a > 0 => split.Cr.n = a
            /\ a < 0 => split.Dr.n = -a
            /\ a = 0 => split.Dr.n = 0 /\ split.Cr.n = 0
            /\ joined.Total = Num(a)

\* a negative amount has gone to the debit side and come back
C21_Witness ==
    /\ RoundTripDone
    /\ inputData[1].Amount.n < 0
    /\ output[1].transformedRow.Dr.n > 0
    /\ output[2].transformedRow.Total = inputData[1].Amount

\* C22: with one debit_credit_to_amount mapping (debit and credit source
\* columns, target column Amount), reconcile on a source row with debit d and
\* credit c and a target row whose Amount is c - d emits one matched verdict
\* that pairs them, and the Amount of the target row in that verdict is the
\* value the row had on input.
C22_FormulaRowsMatched ==
    (FormulaBatchDone /\ targetFile[1].Amount.n = sourceFile[1].Cr.n - sourceFile[1].Dr.n)
        => /\ Len(results) = 1
           /\ results[1].status = "matched"
           /\ results[1].sourceRef = {0}
           /\ results[1].targetRef = {0}
           /\ results[1].targetRow.Amount = targetFile[1].Amount

----------------------------------------------------------------------------
(* Properties of validatePipeline *)

ValidateDone == engine = "validate" /\ pc = "done"

\* C23: validatePipeline reports the pipeline as invalid whenever it holds
\* both a cast_to_date step and a convert_timezone step with the
\* convert_timezone step ahead of the cast_to_date step, and raises no
\* ordering error when cast_to_date comes first.
C23_TimezoneBeforeDateCastInvalid ==
    ValidateDone =>
        LET steps == inputPipeline.steps
            both == /\ HasStepOfType(steps, "cast_to_date")
                    /\ HasStepOfType(steps, "convert_timezone")
            dateStepIndex == FindStepIndex(steps, "cast_to_date")
            timezoneStepIndex == FindStepIndex(steps, "convert_timezone")
        IN  /\ (both /\ timezoneStepIndex < dateStepIndex) => ~output.valid
            /\ (both /\ dateStepIndex < timezoneStepIndex) =>
                  \A k \in 1..Len(output.errors) : output.errors[k] # OrderError

----------------------------------------------------------------------------
(* Properties of compareSortValues under percentage tolerance *)

CompareDone == engine = "compare" /\ pc = "done"

IsZero(v) == v = Num(0)
NonZero(v) == IsNumber(v) /\ v.n # 0

\* C24 as stated: under percentage tolerance compareSortValues never returns
\* 0 for a zero value against a non-zero value, whichever side holds the zero
\* and for every tolerance p.
C24_ZeroMatchesOnlyZero ==
    CompareDone =>
        LET s == inputData.sourceValue
            t == inputData.targetValue
        IN  ((IsZero(s) /\ NonZero(t)) \/ (NonZero(s) /\ IsZero(t))) => output # 0

\* C24: under percentage tolerance a zero source value compares equal to no
\* non-zero target value, for every tolerance p; a non-zero source value
\* compares equal to a zero target value exactly when p is 100 percent or
\* more.
C24_ZeroSourceMatchesOnlyZero ==
    CompareDone =>
        LET s == inputData.sourceValue
            t == inputData.targetValue
        IN  /\ (IsZero(s) /\ NonZero(t)) => output # 0
            /\ (NonZero(s) /\ IsZero(t)) => (output = 0 <=> inputData.percent >= 100)

\* a non-zero source has been compared with a zero target under a tolerance
\* of 100 percent or more, and they compared equal
C24_Witness ==
    /\ CompareDone
    /\ NonZero(inputData.sourceValue) /\ IsZero(inputData.targetValue)
    /\ inputData.percent >= 100
    /\ output = 0

----------------------------------------------------------------------------
(* Properties of the window scan of twoPointerReconciliation *)

\* the unclaimed targets whose sort key is within tolerance of the source's
WithinTolerance(sourceRecord) ==
    {k \in 1..Len(targetRecords) :
        /\ k \notin matchedTargetIndices
        /\ Compare(sourceRecord, targetRecords[k], config) = 0}

ConfidenceOf(sourceRecord, k) ==
    StreamCalculateMatchConfidence(sourceRecord.transformedRow,
                                   targetRecords[k].transformedRow, mappings, config)

\* the earliest of the targets of greatest confidence
BestOf(sourceRecord, candidates) ==
    CHOOSE k \in candidates :
        /\ \A q \in candidates :
              ~Greater(ConfidenceOf(sourceRecord, q), ConfidenceOf(sourceRecord, k))
        /\ \A q \in candidates :
              q < k => Greater(ConfidenceOf(sourceRecord, k), ConfidenceOf(sourceRecord, q))

\* C25: in twoPointerReconciliation the target paired with a source is the
\* unclaimed target within tolerance of the source's key whose confidence is
\* the greatest of all unclaimed targets within tolerance, the earliest one
\* among equals; the pair is emitted only if that confidence exceeds 0.3,
\* otherwise the source is emitted as unmatched-source and no target is
\* claimed.
C25_BestUnclaimedTargetWins ==
    [][(engine = "streaming" /\ pc = "matching" /\ i <= Len(sourceRecords) /\ i' = i + 1) =>
        LET sourceRecord == sourceRecords[i]
            candidates == WithinTolerance(sourceRecord)
            verdict == results'[Len(results')]
        IN  IF candidates # {}
               /\ AboveThreshold(ConfidenceOf(sourceRecord, BestOf(sourceRecord, candidates)))
            THEN /\ Paired(verdict)
                 /\ verdict.sourceRef = RefOf(sourceRecord)
                 /\ verdict.targetRef = RefOf(targetRecords[BestOf(sourceRecord, candidates)])
                 /\ matchedTargetIndices' =
                        matchedTargetIndices \cup {BestOf(sourceRecord, candidates)}
            ELSE /\ verdict.status = "unmatched-source"
                 /\ verdict.sourceRef = RefOf(sourceRecord)
                 /\ matchedTargetIndices' = matchedTargetIndices]_vars

\* C26: when the scan of twoPointerReconciliation over sorted inputs ends, no
\* source emitted as unmatched-source and target emitted as unmatched-target
\* have sort keys that compare equal within tolerance and a confidence above
\* 0.3, for every tolerance unit: no target the window start j has passed is
\* within tolerance of a later source.
C26_NoPairLeftUnmatched ==
    InMemoryDone =>
        \A a, b \in 1..Len(results) :
            (results[a].status = "unmatched-source" /\ results[b].status = "unmatched-target")
                => ~(/\ CompareSortValues(SourceKeyOf(results[a]), TargetKeyOf(results[b]),
                                          config.tolerance, config.toleranceUnit) = 0
                     /\ AboveThreshold(StreamCalculateMatchConfidence(
                            results[a].sourceRow, results[b].targetRow, mappings, config)))

----------------------------------------------------------------------------
(* Properties of sortVirtualFieldsByDependencies and of the nesting of       *)
(* evaluateFormula                                                           *)

SortDone == engine = "sort" /\ pc = "done"

\* sorted holds each field of fields exactly once
IsPermutationOf(sorted, fields) ==
    /\ Len(sorted) = Len(fields)
    /\ \E p \in PositionPermutations(Len(fields)) :
          \A k \in 1..Len(fields) : sorted[k] = fields[p[k]]

RECURSIVE DependenciesWithin(_, _, _)
\* the positions reached from position a along at most steps virtual references
DependenciesWithin(fields, a, steps) ==
    IF steps = 0 THEN {}
    ELSE LET near == {b \in 1..Len(fields) : DependsOn(fields[a], fields[b])}
         IN  near \cup UNION {DependenciesWithin(fields, b, steps - 1) : b \in near}

AcyclicVirtualDependencies(fields) ==
    \A a \in 1..Len(fields) : a \notin DependenciesWithin(fields, a, Len(fields))

\* every virtual reference names a field of the list
ReferencesResolved(fields) ==
    \A a \in 1..Len(fields) : \A k \in 1..Len(fields[a].formula.fields) :
        fields[a].formula.fields[k].isVirtual
            => FindField(fields, fields[a].formula.fields[k].name) # 0

DistinctNames(fields) ==
    \A a, b \in 1..Len(fields) : fields[a].name = fields[b].name => a = b

\* C27 as stated: sortVirtualFieldsByDependencies terminates for every input
\* (every pass of its loop but the last shortens remaining) and returns a
\* permutation of the input; when the virtual dependencies are acyclic and
\* all refer to fields of the input, every field comes after every field that
\* one of its virtual references names.
C27_SortIsTopological ==
    [][engine = "sort" =>
        /\ (pc = "sorting" /\ pc' = "sorting")
              => Len(output'.remaining) < Len(output.remaining)
        /\ pc' = "done" =>
              /\ IsPermutationOf(output'.sorted, virtualFields)
              /\ (AcyclicVirtualDependencies(virtualFields) /\ ReferencesResolved(virtualFields))
                    => \A a, b \in 1..Len(output'.sorted) :
                          DependsOn(output'.sorted[a], output'.sorted[b]) => b < a]_vars

\* C27: sortVirtualFieldsByDependencies terminates for every input and
\* returns a permutation of it; when the virtual dependencies are acyclic and
\* all refer to fields of the input, every field comes after a field of each
\* name its virtual references carry, and after every such field when the
\* names of the fields are distinct.
C27_SortPlacesNamesFirst ==
    [][engine = "sort" =>
        /\ (pc = "sorting" /\ pc' = "sorting")
              => Len(output'.remaining) < Len(output.remaining)
        /\ pc' = "done" =>
              /\ IsPermutationOf(output'.sorted, virtualFields)
              /\ (AcyclicVirtualDependencies(virtualFields) /\ ReferencesResolved(virtualFields))
                    => /\ \A a \in 1..Len(output'.sorted) :
                             \A k \in 1..Len(output'.sorted[a].formula.fields) :
                                output'.sorted[a].formula.fields[k].isVirtual
                                   => \E b \in 1..(a - 1) :
                                         output'.sorted[b].name
                                            = output'.sorted[a].formula.fields[k].name
                       /\ DistinctNames(virtualFields)
                             => \A a, b \in 1..Len(output'.sorted) :
                                   DependsOn(output'.sorted[a], output'.sorted[b]) => b < a]_vars

\* a list of three fields with distinct names and a chain of two virtual
\* references has been sorted into an order that is not the declared one
C27_Witness ==
    /\ SortDone
    /\ Len(virtualFields) = 3
    /\ DistinctNames(virtualFields)
    /\ AcyclicVirtualDependencies(virtualFields) /\ ReferencesResolved(virtualFields)
    /\ \E a, b, c \in 1..3 :
          /\ DependsOn(virtualFields[a], virtualFields[b])
          /\ DependsOn(virtualFields[b], virtualFields[c])
    /\ output.sorted # virtualFields

NestingDone == engine \in {"preview", "evaluate"} /\ pc = "done"

\* C28: evaluating a formula terminates with a recursion depth bounded by the
\* number of virtual fields, for every list of virtual fields, also with
\* fields that refer to themselves or to each other, through
\* evaluateVirtualFields and through previewFormula with the whole list as
\* context: the call stack is never exhausted.
C28_NestingBounded ==
    NestingDone => /\ output.depth <= Len(virtualFields) + 1
                   /\ output.depth < StackLimit

----------------------------------------------------------------------------
(* Properties of the progress events *)

\* C29: during a successful in-memory run of reconcileStreaming the
\* processed value of consecutive progress events never decreases, every
\* processed value lies between 0 and 100, and the last event is
\* {processed: 100, stage: 'Complete'}.
C29_ProgressNeverDecreases ==
    engine = "progress" =>
        /\ \A k \in 1..(Len(output.events) - 1) :
              FractionLeq(output.events[k].processed, output.events[k + 1].processed)
        /\ \A k \in 1..Len(output.events) :
              /\ FractionLeq(Fraction(0, 1), output.events[k].processed)
              /\ FractionLeq(output.events[k].processed, Fraction(100, 1))
        /\ pc = "done" =>
              output.events[Len(output.events)]
                 = ProgressEvent(Fraction(100, 1), "Complete")

----------------------------------------------------------------------------
(* Properties of TransformationBuilder *)

\* C30: starting from an empty pipeline, after any sequence of addStep,
\* removeStep, handleDrop and loadPreset the order values of the steps are
\* exactly 0..n-1, pairwise distinct and increasing with the position in the
\* array.
C30_OrderIsPosition ==
    engine = "builder" =>
        LET steps == inputPipeline.steps
        IN  /\ {steps[k].order : k \in 1..Len(steps)} = 0..(Len(steps) - 1)
            /\ \A a, b \in 1..Len(steps) : a < b => steps[a].order < steps[b].order

\* a preset was loaded, one of its steps removed, a step added and dragged to
\* the front
C30_Witness ==
    /\ engine = "builder"
    /\ Len(inputPipeline.steps) = 3
    /\ \E now \in Clock : inputPipeline.steps[1].id = StepId(now)
    /\ \E now \in Clock : /\ inputPipeline.steps[2].id = PresetStepId(now, 2)
                          /\ inputPipeline.steps[3].id = PresetStepId(now, 0)
====
